---- MODULE Spec2Model ----
(***************************************************************************)
(* State-machine model of the GreenWave conference application: the root   *)
(* aggregate (users, exhibitions, workshops, passes, reservations and the  *)
(* id counters), the controller (current_user, the raised frame) and the   *)
(* Toplevel windows whose handlers create and delete reservations.         *)
(*                                                                         *)
(* Python objects are modelled with their identity: every class has a heap *)
(* (a sequence of records, the index being the object), and the maps and   *)
(* lists of the program hold indices.  An object that is dropped from a    *)
(* map or a list stays in its heap, as it stays alive in the program while *)
(* a window or a reservation still refers to it.                           *)
(***************************************************************************)
EXTENDS Integers, Sequences, FiniteSets, TLC

\* ------------------------------------------------------------------ bounds
\* next_reservation_id is unbounded in the program; creation is explored up
\* to this value of the counter.
MaxReservationId == 3
\* User, Exhibition and Workshop objects constructed after start-up (by a
\* registration or in an editor window), all classes together.
MaxNewObjects == 1
\* Longest exhibition_ids list explored for a pass (SpecPass).
MaxPassLen == 5
\* next_pass_id is unbounded in the program; purchases are explored up to
\* this value of the counter.
MaxPassId == 3

\* ------------------------------------------------------------------ inputs
None == 0

UserNames == {"admin", "johndoe", "janedoe"}
Passwords == {"admin123", "pass123", "pass456"}
\* Password typed into the registration form.
RegistrationPasswords == {"pass456"}
AccountTypes == {"Attendee", "Administrator"}
ExIds == {"ex1", "ex2"}
WsIds == {"ws1", "ws2", "ws4"}
\* Capacities typed into the workshop editor (int() accepts any integer).
CapacityInputs == {0, 2}
\* Exhibition ids used for passes and eligibility queries.
PassExIds == {"ex1", "ex2", "ex3"}

NoMsg == "(no dialog)"
\* add_workshop, line 448: the text of the success dialog.
SuccessMsg == "You have successfully registered for: <title>"

VARIABLES
    users,                \* data["users"]: userId -> User object (None: absent)
    exhibitions,          \* data["exhibitions"]: exhibitionId -> Exhibition object
    next_pass_id,         \* data["next_pass_id"]
    next_transaction_id,  \* data["next_transaction_id"]
    next_reservation_id,  \* data["next_reservation_id"]
    userObjs,             \* heap of User objects (Attendee / Administrator)
    exObjs,               \* heap of Exhibition objects
    wsObjs,               \* heap of Workshop objects
    passObjs,             \* heap of Pass objects
    resObjs,              \* heap of Reservation objects
    current_user,         \* MainApplication.current_user (object or None)
    screen,               \* the frame raised last by show_frame
    regWindow,            \* the open WorkshopRegistrationWindow, or NoWindow
    payWindow,            \* the open PaymentWindow, or NoPayment
    editor,               \* the open WorkshopEditorWindow, or NoEditor
    upgrade,              \* the open UpgradeWindows, one per window slot
    blob,                 \* the contents of DATA_FILE (conference_data.pkl)
    msg                   \* dialog shown by the handler that ran last

vars == <<users, exhibitions, next_pass_id, next_transaction_id,
          next_reservation_id, userObjs, exObjs, wsObjs, passObjs, resObjs,
          current_user, screen, regWindow, payWindow, editor, upgrade, blob,
          msg>>

data == <<users, exhibitions, next_pass_id, next_transaction_id,
          next_reservation_id, userObjs, exObjs, wsObjs, passObjs, resObjs>>

NoWindow == [open |-> FALSE, exhibition |-> None, items |-> {}]
NoSelection == ""
\* No PaymentWindow is open.
NoPayment == [open |-> FALSE, pass_type |-> "", amount |-> 0, exhibition_id |-> ""]
\* No WorkshopEditorWindow is open.
NoEditor == [open |-> FALSE, exhibition_id |-> "", workshop |-> None]

\* The UpgradeWindows the administrator can have open at the same time.
UpgradeWindows == {1, 2}
\* An UpgradeWindow: its attendee (object), the number of rows of
\* pass_listbox, pass_listbox.curselection() and the exhibition ids listed
\* in ex_listbox.
NoUpgrade == [open |-> FALSE, attendee |-> None, rows |-> 0,
              pass_indices |-> <<>>, ex_items |-> <<>>]
NoUpgrades == [k \in UpgradeWindows |-> NoUpgrade]

\* ----------------------------------------------------------------- helpers
Range(s) == {s[i] : i \in DOMAIN s}

\* [x for x in s if Test(x)]
RECURSIVE Filter(_, _)
Filter(s, keep) ==
    IF s = <<>> THEN <<>>
    ELSE IF Head(s) \in keep THEN <<Head(s)>> \o Filter(Tail(s), keep)
         ELSE Filter(Tail(s), keep)

\* f"res{n}" / f"pass{n}": the prefix followed by the decimal counter.
ReservationIdOf(n) == <<"res", n>>
PassIdOf(n) == <<"pass", n>>

\* -------------------------------------------------------------------- text
\* The text of an entry field is the sequence of its characters (ASCII).
Digits == {"0", "1", "2", "3", "4", "5", "6", "7", "8", "9"}

\* str.isdigit(): not empty, and every character is a digit.
isdigit(s) == s # <<>> /\ \A i \in DOMAIN s : s[i] \in Digits

\* str.strip(): the text without its leading and trailing blanks.
RECURSIVE strip(_)
strip(s) ==
    IF s = <<>> THEN s
    ELSE IF Head(s) = " " THEN strip(Tail(s))
    ELSE IF s[Len(s)] = " " THEN strip(SubSeq(s, 1, Len(s) - 1))
    ELSE s

\* str.replace(" ", "").
RemoveSpaces(s) == SelectSeq(s, LAMBDA c : c # " ")

\* `sub in s` for a one-character sub.
Contains(s, c) == \E i \in DOMAIN s : s[i] = c

\* s.split(c, 1): the text before and after the first c of a text that
\* contains c.
FirstIndexOf(s, c) == CHOOSE i \in DOMAIN s : s[i] = c /\ \A j \in 1..(i - 1) : s[j] # c
Before(s, c) == SubSeq(s, 1, FirstIndexOf(s, c) - 1)
After(s, c) == SubSeq(s, FirstIndexOf(s, c) + 1, Len(s))
\* s.split(c)[-1]: the text after the last c (all of s without a c).
RECURSIVE AfterLast(_, _)
AfterLast(s, c) == IF Contains(s, c) THEN AfterLast(After(s, c), c) ELSE s

DigitValue(c) ==
    CASE c = "0" -> 0 [] c = "1" -> 1 [] c = "2" -> 2 [] c = "3" -> 3
      [] c = "4" -> 4 [] c = "5" -> 5 [] c = "6" -> 6 [] c = "7" -> 7
      [] c = "8" -> 8 [] c = "9" -> 9

\* The number written by a sequence of digits.
RECURSIVE DecimalValue(_)
DecimalValue(s) ==
    IF s = <<>> THEN 0
    ELSE 10 * DecimalValue(SubSeq(s, 1, Len(s) - 1)) + DigitValue(s[Len(s)])

\* int(text) raises ValueError unless the text is, between blanks, an
\* optional sign followed by digits.
IsIntLiteral(text) ==
    LET t == strip(text)
    IN isdigit(IF t # <<>> /\ Head(t) \in {"-", "+"} THEN Tail(t) ELSE t)

\* int(text) of a text that int() accepts.
int(text) ==
    LET t == strip(text)
    IN IF Head(t) = "-" THEN 0 - DecimalValue(Tail(t))
       ELSE IF Head(t) = "+" THEN DecimalValue(Tail(t))
       ELSE DecimalValue(t)

\* The days of a month of a year.
DaysIn(year, month) ==
    IF month \in {4, 6, 9, 11} THEN 30
    ELSE IF month # 2 THEN 31
    ELSE IF year % 4 = 0 /\ (year % 100 # 0 \/ year % 400 = 0) THEN 29
    ELSE 28

\* datetime.strptime(text, "%Y-%m-%d %H:%M") raises ValueError unless the
\* text is a four-digit year, a month, a day, an hour and a minute of one or
\* two digits each, separated by "-", "-", " " and ":", that name a moment.
IsDateTime(text) ==
    /\ Contains(text, "-")
    /\ Contains(After(text, "-"), "-")
    /\ Contains(After(After(text, "-"), "-"), " ")
    /\ Contains(After(After(After(text, "-"), "-"), " "), ":")
    /\ LET year == Before(text, "-")
           month == Before(After(text, "-"), "-")
           rest == After(After(text, "-"), "-")
           day == Before(rest, " ")
           hour == Before(After(rest, " "), ":")
           minute == After(After(rest, " "), ":")
       IN /\ isdigit(year) /\ Len(year) = 4
          /\ \A part \in {month, day, hour, minute} :
                 isdigit(part) /\ Len(part) <= 2
          /\ DecimalValue(month) \in 1..12
          /\ DecimalValue(day) \in 1..DaysIn(DecimalValue(year), DecimalValue(month))
          /\ DecimalValue(hour) \in 0..23
          /\ DecimalValue(minute) \in 0..59

\* ------------------------------------------------------------ domain model
\* An availability that ignores the reservations made.
check_availability_capacityOnly(w) == wsObjs[w].capacity

\* Workshop.check_availability: capacity - len(self.reservations).
check_availability(w) == wsObjs[w].capacity - Len(wsObjs[w].reservations)

\* Python's `x in lst` on a list: a left-to-right scan comparing with ==.
RECURSIVE ListContains(_, _)
ListContains(lst, x) ==
    IF lst = <<>> THEN FALSE
    ELSE IF Head(lst) = x THEN TRUE
         ELSE ListContains(Tail(lst), x)

\* An eligibility test that looks at the first exhibition id only.
ExhibitionPass_is_eligible_firstOnly(p, exhibitionId) ==
    /\ passObjs[p].exhibition_ids # <<>>
    /\ passObjs[p].exhibition_ids[1] = exhibitionId

\* ExhibitionPass.is_eligible(exhibition), given exhibition.exhibitionId.
ExhibitionPass_is_eligible(p, exhibitionId) ==
    ListContains(passObjs[p].exhibition_ids, exhibitionId)

\* AllAccessPass.is_eligible(exhibition).
AllAccessPass_is_eligible(p, exhibitionId) == TRUE

\* Dynamic dispatch of p.is_eligible(exhibition) on the class of p.
is_eligible(p, exhibitionId) ==
    IF passObjs[p].kind = "ExhibitionPass"
    THEN ExhibitionPass_is_eligible(p, exhibitionId)
    ELSE AllAccessPass_is_eligible(p, exhibitionId)

\* list.extend(iterable): appends the elements one by one, in order.
RECURSIVE Extend(_, _)
Extend(lst, more) ==
    IF more = <<>> THEN lst
    ELSE Extend(Append(lst, Head(more)), Tail(more))

\* An upgrade that skips the ids the pass already holds.
RECURSIVE upgrade_pass_dedup(_, _)
upgrade_pass_dedup(exhibition_ids, new_exhibition_ids) ==
    IF new_exhibition_ids = <<>> THEN exhibition_ids
    ELSE upgrade_pass_dedup(
             IF ListContains(exhibition_ids, Head(new_exhibition_ids))
             THEN exhibition_ids
             ELSE Append(exhibition_ids, Head(new_exhibition_ids)),
             Tail(new_exhibition_ids))

\* ExhibitionPass.upgrade_pass(new_exhibition_ids): the new exhibition_ids.
upgrade_pass(exhibition_ids, new_exhibition_ids) ==
    Extend(exhibition_ids, new_exhibition_ids)

\* Reservation(reservationId, timestamp, status, attendee, workshop).
Reservation(reservationId, status, attendee, workshop) ==
    [reservationId |-> reservationId, status |-> status,
     attendee |-> attendee, workshop |-> workshop]

\* Attendee(userId, ...) / Administrator(userId, ...): passes and
\* reservations start empty (an Administrator has neither attribute; kind
\* tells the classes apart wherever the code would raise AttributeError).
User(kind, userId, passwordHash) ==
    [kind |-> kind, userId |-> userId, passwordHash |-> passwordHash,
     passes |-> <<>>, reservations |-> <<>>]

Exhibition(exhibitionId) == [exhibitionId |-> exhibitionId, workshops |-> <<>>]

Workshop(workshopId, capacity) ==
    [workshopId |-> workshopId, capacity |-> capacity, reservations |-> <<>>]

\* ----------------------------------------------------------- the aggregate
HasExhibition(ex_id) ==
    ex_id \in DOMAIN exhibitions /\ exhibitions[ex_id] # None

\* Objects that are values of data["users"] / data["exhibitions"].
UsersInMap == {users[n] : n \in UserNames} \ {None}
ExhibitionsInMap == {exhibitions[e] : e \in DOMAIN exhibitions} \ {None}
IsAttendee(u) == u # None /\ userObjs[u].kind = "Attendee"
AttendeesInMap == {u \in UsersInMap : IsAttendee(u)}
\* Workshops of the exhibitions of the aggregate.
WorkshopsInData ==
    UNION {Range(exObjs[e].workshops) : e \in ExhibitionsInMap}

WorkshopIdsOf(e) == {wsObjs[w].workshopId : w \in Range(exObjs[e].workshops)}

\* A delete that leaves no reservation in the list.
ReservationsNotFor_none(lst, ws_ids) == <<>>

\* Reservations of list lst whose workshop's workshopId is not in ws_ids.
ReservationsNotFor(lst, ws_ids) ==
    Filter(lst, {r \in Range(lst) : wsObjs[resObjs[r].workshop].workshopId \notin ws_ids})

\* ------------------------------------------------------------ persistence
\* The data dictionary with the objects reachable or not from it.
Aggregate ==
    [users |-> users, exhibitions |-> exhibitions,
     next_pass_id |-> next_pass_id,
     next_transaction_id |-> next_transaction_id,
     next_reservation_id |-> next_reservation_id,
     userObjs |-> userObjs, exObjs |-> exObjs, wsObjs |-> wsObjs,
     passObjs |-> passObjs, resObjs |-> resObjs]

\* The memory of a process that is not running.
NoAggregate ==
    [users |-> [n \in UserNames |-> None],
     exhibitions |-> [e \in ExIds |-> None],
     next_pass_id |-> 0, next_transaction_id |-> 0,
     next_reservation_id |-> 0,
     userObjs |-> <<>>, exObjs |-> <<>>, wsObjs |-> <<>>,
     passObjs |-> <<>>, resObjs |-> <<>>]

SeedExIds == {"ex1", "ex2", "ex3"}

\* The seed without line 110 (ws1.reservations.append(res)).
SeedAggregate_oneSided ==
    [users |-> [n \in UserNames |->
                  CASE n = "admin" -> 1 [] n = "johndoe" -> 2 [] OTHER -> 3],
     exhibitions |-> [e \in SeedExIds |->
                  CASE e = "ex1" -> 1 [] e = "ex2" -> 2 [] OTHER -> 3],
     next_pass_id |-> 2, next_transaction_id |-> 2,
     next_reservation_id |-> 2,
     userObjs |-> << User("Administrator", "admin", "admin123"),
                     [User("Attendee", "johndoe", "pass123")
                        EXCEPT !.passes = <<1>>, !.reservations = <<1>>],
                     User("Attendee", "janedoe", "pass456") >>,
     exObjs |-> << [Exhibition("ex1") EXCEPT !.workshops = <<1, 2, 3>>],
                   [Exhibition("ex2") EXCEPT !.workshops = <<4, 5, 6>>],
                   [Exhibition("ex3") EXCEPT !.workshops = <<7, 8, 9>>] >>,
     wsObjs |-> << Workshop("ws1", 50),
                   Workshop("ws2", 30), Workshop("ws3", 40),
                   Workshop("ws4", 40), Workshop("ws5", 35),
                   Workshop("ws6", 25), Workshop("ws7", 25),
                   Workshop("ws8", 20), Workshop("ws9", 15) >>,
     passObjs |-> << [passId |-> PassIdOf(1), kind |-> "ExhibitionPass",
                      price |-> 100, exhibition_ids |-> <<"ex1">>] >>,
     resObjs |-> << Reservation(ReservationIdOf(1), "Confirmed", 2, 1) >>]

\* The aggregate built by initialize_data (lines 59-118).
SeedAggregate ==
    [users |-> [n \in UserNames |->
                  CASE n = "admin" -> 1 [] n = "johndoe" -> 2 [] OTHER -> 3],
     exhibitions |-> [e \in SeedExIds |->
                  CASE e = "ex1" -> 1 [] e = "ex2" -> 2 [] OTHER -> 3],
     next_pass_id |-> 2, next_transaction_id |-> 2,
     next_reservation_id |-> 2,
     userObjs |-> << User("Administrator", "admin", "admin123"),
                     [User("Attendee", "johndoe", "pass123")
                        EXCEPT !.passes = <<1>>, !.reservations = <<1>>],
                     User("Attendee", "janedoe", "pass456") >>,
     exObjs |-> << [Exhibition("ex1") EXCEPT !.workshops = <<1, 2, 3>>],
                   [Exhibition("ex2") EXCEPT !.workshops = <<4, 5, 6>>],
                   [Exhibition("ex3") EXCEPT !.workshops = <<7, 8, 9>>] >>,
     wsObjs |-> << [Workshop("ws1", 50) EXCEPT !.reservations = <<1>>],
                   Workshop("ws2", 30), Workshop("ws3", 40),
                   Workshop("ws4", 40), Workshop("ws5", 35),
                   Workshop("ws6", 25), Workshop("ws7", 25),
                   Workshop("ws8", 20), Workshop("ws9", 15) >>,
     passObjs |-> << [passId |-> PassIdOf(1), kind |-> "ExhibitionPass",
                      price |-> 100, exhibition_ids |-> <<"ex1">>] >>,
     resObjs |-> << Reservation(ReservationIdOf(1), "Confirmed", 2, 1) >>]

\* pickle.dump walks the objects reachable from the dictionary: from a user
\* to its reservations, from a reservation to its attendee and workshop,
\* from a workshop to its reservations.
ReachStep(a, S) ==
    [u |-> S.u \cup {a.resObjs[r].attendee : r \in S.r},
     w |-> S.w \cup {a.resObjs[r].workshop : r \in S.r},
     r |-> S.r \cup UNION {Range(a.userObjs[u].reservations) : u \in S.u}
               \cup UNION {Range(a.wsObjs[w].reservations) : w \in S.w}]

RECURSIVE ReachFrom(_, _)
ReachFrom(a, S) ==
    IF ReachStep(a, S) = S THEN S ELSE ReachFrom(a, ReachStep(a, S))

\* The objects pickle.dump writes, by class.
Pickled(a) ==
    LET e == {a.exhibitions[x] : x \in DOMAIN a.exhibitions} \ {None}
        S == ReachFrom(a, [u |-> {a.users[n] : n \in DOMAIN a.users} \ {None},
                           w |-> UNION {Range(a.exObjs[x].workshops) : x \in e},
                           r |-> {}])
    IN [u |-> S.u, e |-> e, w |-> S.w, r |-> S.r,
        p |-> UNION {Range(a.userObjs[u].passes) : u \in S.u}]

\* The position of object i among the written objects of its class: the
\* object that pickle.load builds for it.
Rebuilt(written, i) == Cardinality({j \in written : j <= i})

\* A load that rebuilds every list back to front.
RECURSIVE RebuiltList_reversed(_, _)
RebuiltList_reversed(written, lst) ==
    IF lst = <<>> THEN <<>>
    ELSE RebuiltList_reversed(written, Tail(lst))
             \o <<Rebuilt(written, Head(lst))>>

\* A list of objects, rebuilt element by element.
RECURSIVE RebuiltList(_, _)
RebuiltList(written, lst) ==
    IF lst = <<>> THEN <<>>
    ELSE <<Rebuilt(written, Head(lst))>> \o RebuiltList(written, Tail(lst))

\* The written objects of heap, in order, as sequence of heap indices.
RECURSIVE WrittenOf(_, _, _)
WrittenOf(heap, written, i) ==
    IF i > Len(heap) THEN <<>>
    ELSE (IF i \in written THEN <<i>> ELSE <<>>)
             \o WrittenOf(heap, written, i + 1)

\* pickle.load(pickle.dump(a)): a dictionary with the same keys and counters
\* whose values are rebuilt objects referring to rebuilt objects.
Pickle(a) ==
    LET P == Pickled(a)
        us == WrittenOf(a.userObjs, P.u, 1)
        es == WrittenOf(a.exObjs, P.e, 1)
        ws == WrittenOf(a.wsObjs, P.w, 1)
        ps == WrittenOf(a.passObjs, P.p, 1)
        rs == WrittenOf(a.resObjs, P.r, 1)
    IN [users |-> [n \in DOMAIN a.users |->
                     IF a.users[n] = None THEN None
                     ELSE Rebuilt(P.u, a.users[n])],
        exhibitions |-> [x \in DOMAIN a.exhibitions |->
                     IF a.exhibitions[x] = None THEN None
                     ELSE Rebuilt(P.e, a.exhibitions[x])],
        next_pass_id |-> a.next_pass_id,
        next_transaction_id |-> a.next_transaction_id,
        next_reservation_id |-> a.next_reservation_id,
        userObjs |-> [k \in DOMAIN us |->
                     [a.userObjs[us[k]] EXCEPT
                        !.passes = RebuiltList(P.p, @),
                        !.reservations = RebuiltList(P.r, @)]],
        exObjs |-> [k \in DOMAIN es |->
                     [a.exObjs[es[k]] EXCEPT
                        !.workshops = RebuiltList(P.w, @)]],
        wsObjs |-> [k \in DOMAIN ws |->
                     [a.wsObjs[ws[k]] EXCEPT
                        !.reservations = RebuiltList(P.r, @)]],
        passObjs |-> [k \in DOMAIN ps |-> a.passObjs[ps[k]]],
        resObjs |-> [k \in DOMAIN rs |->
                     [a.resObjs[rs[k]] EXCEPT
                        !.attendee = Rebuilt(P.u, @),
                        !.workshop = Rebuilt(P.w, @)]]]

\* DATA_FILE holding the pickle of aggregate a.
PickleFile(a) == [state |-> "pickle", content |-> Pickle(a)]
\* DATA_FILE in a state without a loadable pickle: "absent", "unreadable"
\* (open or read raises IOError), "empty" (zero bytes), "truncated" (a
\* proper prefix of a pickle), "garbage" (bytes that are no pickle).
OtherFile(state) == [state |-> state, content |-> NoAggregate]

\* The state the program starts in: load_data() returns the aggregate saved
\* by an earlier session.  This one is the seed of initialize_data after an
\* administrator deleted ex3 and the workshops ws3, ws5, ws6, set the
\* capacities of ws1, ws2 and ws4 to 2, 1 and 1, and janedoe bought an
\* AllAccessPass.
Init ==
    /\ userObjs = << User("Administrator", "admin", "admin123"),
                     [User("Attendee", "johndoe", "pass123")
                        EXCEPT !.passes = <<1>>, !.reservations = <<1>>],
                     [User("Attendee", "janedoe", "pass456")
                        EXCEPT !.passes = <<2>>] >>
    /\ users = [n \in UserNames |->
                  CASE n = "admin" -> 1 [] n = "johndoe" -> 2 [] OTHER -> 3]
    /\ exObjs = << [Exhibition("ex1") EXCEPT !.workshops = <<1, 2>>],
                   [Exhibition("ex2") EXCEPT !.workshops = <<3>>] >>
    /\ exhibitions = [e \in ExIds |-> IF e = "ex1" THEN 1 ELSE 2]
    /\ wsObjs = << [Workshop("ws1", 2) EXCEPT !.reservations = <<1>>],
                   Workshop("ws2", 1),
                   Workshop("ws4", 1) >>
    /\ passObjs = << [passId |-> PassIdOf(1), kind |-> "ExhibitionPass",
                      price |-> 100, exhibition_ids |-> <<"ex1">>],
                     [passId |-> PassIdOf(2), kind |-> "AllAccessPass",
                      price |-> 500, exhibition_ids |-> <<>>] >>
    /\ resObjs = << Reservation(ReservationIdOf(1), "Confirmed", 2, 1) >>
    /\ next_pass_id = 3
    /\ next_transaction_id = 2
    /\ next_reservation_id = 2
    /\ current_user = None
    /\ screen = "AuthFrame"
    /\ regWindow = NoWindow
    /\ payWindow = NoPayment
    /\ editor = NoEditor
    /\ upgrade = NoUpgrades
    /\ blob = PickleFile(Aggregate)
    /\ msg = NoMsg

\* ------------------------------------------------------------- controller
\* A set_user that shows the attendee dashboard to every user.
DashboardOf_attendee(user) == "AttendeeDashboard"

\* MainApplication.set_user: the dashboard raised for a user.
DashboardOf(user) ==
    IF userObjs[user].kind = "Administrator"
    THEN "AdminDashboard" ELSE "AttendeeDashboard"

\* AuthFrame.login: `user and user.passwordHash == password`.
CanLogin(username, password) ==
    /\ users[username] # None
    /\ userObjs[users[username]].passwordHash = password

\* AuthFrame.login (username and password not empty).
Login(username, password) ==
    /\ screen = "AuthFrame"
    /\ IF CanLogin(username, password)
       THEN /\ current_user' = users[username]
            /\ screen' = DashboardOf(users[username])
            /\ msg' = NoMsg
       ELSE /\ msg' = "Invalid username or password."
            /\ UNCHANGED <<current_user, screen>>
    /\ UNCHANGED <<blob, upgrade, payWindow, editor, data, regWindow>>

\* MainApplication.logout, from the Logout button of either dashboard.
Logout ==
    /\ screen \in {"AttendeeDashboard", "AdminDashboard"}
    /\ current_user' = None
    /\ screen' = "AuthFrame"
    /\ msg' = NoMsg
    /\ UNCHANGED <<blob, upgrade, payWindow, editor, data, regWindow>>

\* A deletion that leaves the users map alone.
UsersAfterDelete_kept(userId) == users

\* data["users"] after `del data["users"][userId]`.
UsersAfterDelete(userId) == [users EXCEPT ![userId] = None]

\* AttendeeDashboard.delete_account.
DeleteAccount(confirm) ==
    /\ screen = "AttendeeDashboard"
    /\ current_user # None
    /\ IF ~confirm
       THEN /\ msg' = NoMsg
            /\ UNCHANGED <<users, current_user, screen>>
       ELSE IF users[userObjs[current_user].userId] = None
       THEN /\ msg' = "KeyError"
            /\ UNCHANGED <<users, current_user, screen>>
       ELSE /\ users' = UsersAfterDelete(userObjs[current_user].userId)
            /\ msg' = "Your account has been successfully deleted."
            /\ current_user' = None
            /\ screen' = "AuthFrame"
    /\ UNCHANGED <<blob, upgrade, payWindow, editor, exhibitions, next_pass_id, next_transaction_id,
                   next_reservation_id, userObjs, exObjs, wsObjs, passObjs,
                   resObjs, regWindow>>

\* Objects constructed since start-up (the loaded aggregate holds three
\* users, two exhibitions and three workshops).
ConstructedObjects ==
    (Len(userObjs) - 3) + (Len(exObjs) - 2) + (Len(wsObjs) - 3)

\* RegistrationWindow.register with every field filled in and well formed.
\* The window is a Toplevel opened from the AuthFrame, which is shown at
\* start-up and after every logout; it stays open until a registration
\* succeeds in it, whatever the main window shows.
RegisterInWindow(username, password, account_type) ==
    /\ screen # "(not running)"
    /\ IF users[username] # None
       THEN /\ msg' = "Username already exists."
            /\ UNCHANGED <<users, userObjs, current_user, screen>>
       ELSE /\ ConstructedObjects < MaxNewObjects
            /\ userObjs' = Append(userObjs, User(account_type, username, password))
            /\ users' = [users EXCEPT ![username] = Len(userObjs) + 1]
            /\ msg' = "Account created successfully! Welcome."
            /\ current_user' = Len(userObjs) + 1
            /\ screen' = IF account_type = "Administrator"
                         THEN "AdminDashboard" ELSE "AttendeeDashboard"
    /\ UNCHANGED <<blob, upgrade, payWindow, editor, exhibitions, next_pass_id, next_transaction_id,
                   next_reservation_id, exObjs, wsObjs, passObjs, resObjs,
                   regWindow>>

\* AuthFrame.open_registration followed by RegistrationWindow.register with
\* every field filled in and well formed.
Register(username, password, account_type) ==
    /\ screen = "AuthFrame"
    /\ RegisterInWindow(username, password, account_type)

\* ----------------------------------------------------- attendee dashboard
\* WorkshopRegistrationWindow.__init__: keeps the Exhibition object and
\* fills workshop_tree with one row (iid = workshopId) per workshop.
NewRegistrationWindow(ex_id) ==
    [open |-> TRUE, exhibition |-> exhibitions[ex_id],
     items |-> WorkshopIdsOf(exhibitions[ex_id])]

\* "Register for Workshop" on the row of an ExhibitionPass: refresh_data
\* shows the button for the first exhibition id of the pass, if it exists.
OpenWorkshopRegistration(i) ==
    /\ screen = "AttendeeDashboard"
    /\ IsAttendee(current_user)
    /\ i \in DOMAIN userObjs[current_user].passes
    /\ LET p == passObjs[userObjs[current_user].passes[i]] IN
         /\ p.kind = "ExhibitionPass"
         /\ p.exhibition_ids # <<>>
         /\ HasExhibition(p.exhibition_ids[1])
         /\ ~regWindow.open
         /\ regWindow' = NewRegistrationWindow(p.exhibition_ids[1])
         /\ msg' = IF exObjs[exhibitions[p.exhibition_ids[1]]].workshops = <<>>
                   THEN "No workshops available for this exhibition."
                   ELSE NoMsg
    /\ UNCHANGED <<blob, upgrade, payWindow, editor, data, current_user, screen>>

\* "Select Exhibition & Register" on the row of an AllAccessPass, followed
\* by ExhibitionSelectionWindow.select_and_register on a listed exhibition.
SelectAndRegister(i, selection) ==
    /\ screen = "AttendeeDashboard"
    /\ IsAttendee(current_user)
    /\ i \in DOMAIN userObjs[current_user].passes
    /\ passObjs[userObjs[current_user].passes[i]].kind # "ExhibitionPass"
    /\ IF selection = NoSelection
       THEN /\ msg' = "Please select an exhibition."
            /\ UNCHANGED regWindow
       ELSE /\ HasExhibition(selection)
            /\ ~regWindow.open
            /\ regWindow' = NewRegistrationWindow(selection)
            /\ msg' = IF exObjs[exhibitions[selection]].workshops = <<>>
                      THEN "No workshops available for this exhibition."
                      ELSE NoMsg
    /\ UNCHANGED <<blob, upgrade, payWindow, editor, data, current_user, screen>>

\* add_workshop, lines 412-416: the first workshop of the window's
\* exhibition whose workshopId is the selected row.
RECURSIVE FindWorkshop(_, _)
FindWorkshop(workshops, workshop_id) ==
    IF workshops = <<>> THEN None
    ELSE IF wsObjs[Head(workshops)].workshopId = workshop_id THEN Head(workshops)
         ELSE FindWorkshop(Tail(workshops), workshop_id)

\* A duplicate check that looks at the holder of the reservation instead of
\* its workshop.
AlreadyReserved_byHolder(user, workshop) ==
    \E i \in DOMAIN userObjs[user].reservations :
        userObjs[resObjs[userObjs[user].reservations[i]].attendee].userId
            = wsObjs[workshop].workshopId

\* add_workshop, lines 425-428: user already holds a reservation whose
\* workshop has the workshopId of the target.
AlreadyReserved(user, workshop) ==
    \E i \in DOMAIN userObjs[user].reservations :
        wsObjs[resObjs[userObjs[user].reservations[i]].workshop].workshopId
            = wsObjs[workshop].workshopId

\* A capacity check that only rejects below zero.
IsFull_belowZero(workshop) == check_availability(workshop) < 0

\* add_workshop, line 432.
IsFull(workshop) == check_availability(workshop) <= 0

\* add_workshop, line 444: user.reservations.append(new_reservation).
AttendeeAppend(user, r) ==
    [userObjs EXCEPT ![user].reservations = Append(@, r)]

\* add_workshop without line 445.
WorkshopAppend_omitted(workshop, r) == wsObjs

\* add_workshop, line 445: workshop.reservations.append(new_reservation).
WorkshopAppend(workshop, r) ==
    [wsObjs EXCEPT ![workshop].reservations = Append(@, r)]

\* add_workshop, line 443: the Reservation that is constructed.
NewReservation(user, workshop) ==
    Reservation(ReservationIdOf(next_reservation_id), "Confirmed", user, workshop)

\* WorkshopRegistrationWindow.add_workshop (the Add button).
AddWorkshop(selection) ==
    /\ regWindow.open
    /\ selection \in regWindow.items \cup {NoSelection}
    /\ LET workshop == FindWorkshop(exObjs[regWindow.exhibition].workshops, selection)
           user == current_user
       IN
       IF selection = NoSelection
       THEN /\ msg' = "Please select a workshop."
            /\ UNCHANGED <<data, regWindow>>
       ELSE IF workshop = None
       THEN /\ msg' = "Workshop not found."
            /\ UNCHANGED <<data, regWindow>>
       ELSE IF ~IsAttendee(user)
       THEN \* None.reservations / Administrator.reservations
            /\ msg' = "AttributeError"
            /\ UNCHANGED <<data, regWindow>>
       ELSE IF AlreadyReserved(user, workshop)
       THEN /\ msg' = "You already have a reservation for this workshop."
            /\ UNCHANGED <<data, regWindow>>
       ELSE IF IsFull(workshop)
       THEN /\ msg' = "This workshop is full."
            /\ UNCHANGED <<data, regWindow>>
       ELSE /\ next_reservation_id <= MaxReservationId
            /\ next_reservation_id' = next_reservation_id + 1
            /\ resObjs' = Append(resObjs, NewReservation(user, workshop))
            /\ userObjs' = AttendeeAppend(user, Len(resObjs) + 1)
            /\ wsObjs' = WorkshopAppend(workshop, Len(resObjs) + 1)
            /\ msg' = SuccessMsg
            /\ regWindow' = NoWindow
            /\ UNCHANGED <<users, exhibitions, next_pass_id,
                           next_transaction_id, exObjs, passObjs>>
    /\ UNCHANGED <<blob, upgrade, payWindow, editor, current_user, screen>>

\* The Cancel button (self.destroy) of the WorkshopRegistrationWindow.
Cancel ==
    /\ regWindow.open
    /\ regWindow' = NoWindow
    /\ msg' = NoMsg
    /\ UNCHANGED <<blob, upgrade, payWindow, editor, data, current_user, screen>>

\* -------------------------------------------------------- admin dashboard
\* A delete without the loop over the users.
RemoveReservationsFor_none(ws_ids) == userObjs

\* delete_exhibition / delete_workshop, the loop over data["users"].values():
\* every user of the map that has a reservations attribute keeps the
\* reservations whose workshop's workshopId is not in ws_ids.
RemoveReservationsFor(ws_ids) ==
    [u \in DOMAIN userObjs |->
        IF u \in AttendeesInMap
        THEN [userObjs[u] EXCEPT
                !.reservations = ReservationsNotFor(@, ws_ids)]
        ELSE userObjs[u]]

\* AdminDashboard.delete_exhibition on the exhibition selected in ex_tree.
DeleteExhibition(ex_id, confirm) ==
    /\ screen = "AdminDashboard"
    /\ HasExhibition(ex_id)
    /\ IF confirm
       THEN /\ userObjs' = RemoveReservationsFor(WorkshopIdsOf(exhibitions[ex_id]))
            /\ exhibitions' = [exhibitions EXCEPT ![ex_id] = None]
            /\ msg' = "Exhibition deleted."
       ELSE /\ msg' = NoMsg
            /\ UNCHANGED <<userObjs, exhibitions>>
    /\ UNCHANGED <<blob, upgrade, payWindow, editor, users, next_pass_id, next_transaction_id,
                   next_reservation_id, exObjs, wsObjs, passObjs, resObjs,
                   current_user, screen, regWindow>>

\* A delete that empties the workshop list of the exhibition.
WorkshopsWithout_all(workshops, ws_id) == <<>>

\* delete_workshop, line 393: the workshops of the exhibition without ws_id.
WorkshopsWithout(workshops, ws_id) ==
    Filter(workshops, {w \in Range(workshops) : wsObjs[w].workshopId # ws_id})

\* AdminDashboard.delete_workshop on the row selected in ws_content_tree,
\* which lists the workshops of the exhibition selected in ex_tree.
DeleteWorkshop(ex_id, ws_id, confirm) ==
    /\ screen = "AdminDashboard"
    /\ HasExhibition(ex_id)
    /\ ws_id \in WorkshopIdsOf(exhibitions[ex_id])
    /\ IF confirm
       THEN /\ exObjs' = [exObjs EXCEPT ![exhibitions[ex_id]].workshops =
                                            WorkshopsWithout(@, ws_id)]
            /\ userObjs' = RemoveReservationsFor({ws_id})
            /\ msg' = "Workshop deleted."
       ELSE /\ msg' = NoMsg
            /\ UNCHANGED <<userObjs, exObjs>>
    /\ UNCHANGED <<blob, upgrade, payWindow, editor, users, exhibitions, next_pass_id, next_transaction_id,
                   next_reservation_id, wsObjs, passObjs, resObjs,
                   current_user, screen, regWindow>>

\* ExhibitionEditorWindow.save of a window opened by "Add Exhibition", with
\* every field filled in.
SaveNewExhibition(ex_id) ==
    /\ screen = "AdminDashboard"
    /\ IF HasExhibition(ex_id)
       THEN /\ msg' = "Exhibition ID already exists."
            /\ UNCHANGED <<exhibitions, exObjs>>
       ELSE /\ ConstructedObjects < MaxNewObjects
            /\ exObjs' = Append(exObjs, Exhibition(ex_id))
            /\ exhibitions' = [exhibitions EXCEPT ![ex_id] = Len(exObjs) + 1]
            /\ msg' = NoMsg
    /\ UNCHANGED <<blob, upgrade, payWindow, editor, users, next_pass_id, next_transaction_id,
                   next_reservation_id, userObjs, wsObjs, passObjs, resObjs,
                   current_user, screen, regWindow>>

\* A duplicate check that finds nothing.
WorkshopIdExists_never(ws_id) == FALSE

\* WorkshopEditorWindow.save, line 558: the id is taken by a workshop of
\* some exhibition of the aggregate.
WorkshopIdExists(ws_id) ==
    \E w \in WorkshopsInData : wsObjs[w].workshopId = ws_id

\* WorkshopEditorWindow.save of a window opened by "Add Workshop" for the
\* exhibition selected in ex_tree, with well-formed fields.
SaveNewWorkshop(ex_id, ws_id, capacity) ==
    /\ screen = "AdminDashboard"
    /\ HasExhibition(ex_id)
    /\ IF WorkshopIdExists(ws_id)
       THEN /\ msg' = "Workshop ID already exists."
            /\ UNCHANGED <<exObjs, wsObjs>>
       ELSE /\ ConstructedObjects < MaxNewObjects
            /\ wsObjs' = Append(wsObjs, Workshop(ws_id, capacity))
            /\ exObjs' = [exObjs EXCEPT ![exhibitions[ex_id]].workshops =
                                            Append(@, Len(wsObjs) + 1)]
            /\ msg' = NoMsg
    /\ UNCHANGED <<blob, upgrade, payWindow, editor, users, exhibitions, next_pass_id, next_transaction_id,
                   next_reservation_id, userObjs, passObjs, resObjs,
                   current_user, screen, regWindow>>

\* An editor that refuses a capacity below the number of reservations.
SaveEditedWorkshop_guarded(ex_id, ws_id, capacity) ==
    /\ screen = "AdminDashboard"
    /\ HasExhibition(ex_id)
    /\ ws_id \in WorkshopIdsOf(exhibitions[ex_id])
    /\ LET w == FindWorkshop(exObjs[exhibitions[ex_id]].workshops, ws_id)
       IN IF capacity < Len(wsObjs[w].reservations)
          THEN /\ msg' = "Invalid Input"
               /\ UNCHANGED wsObjs
          ELSE /\ wsObjs' = [wsObjs EXCEPT ![w].capacity = capacity]
               /\ msg' = NoMsg
    /\ UNCHANGED <<blob, upgrade, payWindow, editor, users, exhibitions, next_pass_id, next_transaction_id,
                   next_reservation_id, userObjs, exObjs, passObjs, resObjs,
                   current_user, screen, regWindow>>

\* WorkshopEditorWindow.save of a window opened by "Edit Selected Workshop"
\* on a workshop of the exhibition selected in ex_tree.
SaveEditedWorkshop(ex_id, ws_id, capacity) ==
    /\ screen = "AdminDashboard"
    /\ HasExhibition(ex_id)
    /\ ws_id \in WorkshopIdsOf(exhibitions[ex_id])
    /\ wsObjs' = [wsObjs EXCEPT
                    ![FindWorkshop(exObjs[exhibitions[ex_id]].workshops, ws_id)]
                        .capacity = capacity]
    /\ msg' = NoMsg
    /\ UNCHANGED <<blob, upgrade, payWindow, editor, users, exhibitions, next_pass_id, next_transaction_id,
                   next_reservation_id, userObjs, exObjs, passObjs, resObjs,
                   current_user, screen, regWindow>>

\* ------------------------------------------------------------ admin forms
\* Texts typed into the capacity and the date fields of the workshop editor.
CapacityTexts ==
    {<<>>, <<"2">>, <<" ", "2", " ">>, <<"a", "b", "c">>, <<"2", "x">>}
DateTexts ==
    {<<>>, <<"2", "0", "2", "5", "-", "0", "4", "-", "1", "0", " ", "0", "9", ":", "0", "0">>,
     <<"2", "0", "2", "5", "-", "1", "3", "-", "1", "0", " ", "0", "9", ":", "0", "0">>,
     <<"2", "0", "2", "5", "-", "0", "2", "-", "3", "0", " ", "0", "9", ":", "0", "0">>,
     <<"1", "0", "/", "0", "4", "/", "2", "0", "2", "5">>}
WellFormedDate == <<"2", "0", "2", "5", "-", "0", "4", "-", "1", "0", " ", "0", "9", ":", "0", "0">>
\* The forms: the well-formed ones, and those that differ from a well-formed
\* one in the capacity, the id, the title or a date.
WorkshopForms ==
    LET wellFormed == [ws_id |-> "ws2", title |-> "Title", capacity |-> <<"2">>,
                       start_time |-> WellFormedDate, end_time |-> WellFormedDate]
    IN {[wellFormed EXCEPT !.ws_id = w] : w \in WsIds \cup {""}}
       \cup {[wellFormed EXCEPT !.capacity = c] : c \in CapacityTexts}
       \cup {[wellFormed EXCEPT !.title = ""]}
       \cup {[wellFormed EXCEPT !.start_time = d] : d \in DateTexts}
       \cup {[wellFormed EXCEPT !.end_time = d] : d \in DateTexts}

\* Well-formed forms with a signed capacity.
SignedCapacityForms ==
    {[ws_id |-> "ws2", title |-> "Title", capacity |-> c,
      start_time |-> WellFormedDate, end_time |-> WellFormedDate] :
        c \in {<<"-", "1">>, <<"+", "2">>}}

\* WorkshopEditorWindow(parent, controller, exhibition_id, workshop).
NewEditor(exhibition_id, workshop) ==
    [open |-> TRUE, exhibition_id |-> exhibition_id, workshop |-> workshop]

\* AdminDashboard.add_workshop (ws_id = NoSelection) and edit_workshop on
\* the rows selected in ex_tree and ws_content_tree.
OpenWorkshopEditor(ex_id, ws_id) ==
    /\ screen = "AdminDashboard"
    /\ HasExhibition(ex_id)
    /\ ~editor.open
    /\ IF ws_id = NoSelection
       THEN editor' = NewEditor(ex_id, None)
       ELSE /\ ws_id \in WorkshopIdsOf(exhibitions[ex_id])
            /\ editor' = NewEditor(ex_id,
                   FindWorkshop(exObjs[exhibitions[ex_id]].workshops, ws_id))
    /\ msg' = NoMsg
    /\ UNCHANGED <<blob, upgrade, payWindow, data, current_user, screen, regWindow>>

\* The editor closed by its title bar.
CloseEditor ==
    /\ editor.open
    /\ editor' = NoEditor
    /\ msg' = NoMsg
    /\ UNCHANGED <<blob, upgrade, payWindow, data, current_user, screen, regWindow>>

\* WorkshopEditorWindow.save, lines 540-547: a statement of the try block
\* raises ValueError.  The id entry of an editor in edit mode is disabled
\* and holds the workshopId.
SaveRaisesValueError(form) ==
    \/ ~IsIntLiteral(form.capacity)
    \/ ~IsDateTime(form.start_time)
    \/ ~IsDateTime(form.end_time)
    \/ (editor.workshop = None /\ form.ws_id = "")
    \/ form.title = ""

\* WorkshopEditorWindow.save (the Save button).
EditorSave(form) ==
    /\ editor.open
    /\ IF SaveRaisesValueError(form)
       THEN /\ msg' = "Invalid Input"
            /\ UNCHANGED <<data, editor>>
       ELSE IF ~HasExhibition(editor.exhibition_id)
       THEN \* data["exhibitions"][self.exhibition_id], line 550
            /\ msg' = "KeyError"
            /\ UNCHANGED <<data, editor>>
       ELSE IF editor.workshop # None
       THEN /\ wsObjs' = [wsObjs EXCEPT
                            ![editor.workshop].capacity = int(form.capacity)]
            /\ editor' = NoEditor
            /\ msg' = NoMsg
            /\ UNCHANGED <<users, exhibitions, next_pass_id, next_transaction_id,
                           next_reservation_id, userObjs, exObjs, passObjs,
                           resObjs>>
       ELSE IF WorkshopIdExists(form.ws_id)
       THEN /\ msg' = "Workshop ID already exists."
            /\ UNCHANGED <<data, editor>>
       ELSE /\ ConstructedObjects < MaxNewObjects
            /\ wsObjs' = Append(wsObjs, Workshop(form.ws_id, int(form.capacity)))
            /\ exObjs' = [exObjs EXCEPT
                            ![exhibitions[editor.exhibition_id]].workshops =
                                Append(@, Len(wsObjs) + 1)]
            /\ editor' = NoEditor
            /\ msg' = NoMsg
            /\ UNCHANGED <<users, exhibitions, next_pass_id, next_transaction_id,
                           next_reservation_id, userObjs, passObjs, resObjs>>
    /\ UNCHANGED <<blob, upgrade, payWindow, current_user, screen, regWindow>>

\* The forms of the exhibition editor: id, name and description.
ExhibitionForms ==
    LET wellFormed == [ex_id |-> "ex1", name |-> "Name",
                       description |-> "Description"]
    IN {[wellFormed EXCEPT !.ex_id = e] : e \in ExIds \cup {""}}
       \cup {[wellFormed EXCEPT !.name = ""],
             [wellFormed EXCEPT !.description = ""]}

\* ExhibitionEditorWindow.save of a window opened by "Add Exhibition".
SaveExhibitionForm(form) ==
    IF "" \in {form.ex_id, form.name, form.description}
    THEN /\ screen = "AdminDashboard"
         /\ msg' = "All fields are required."
         /\ UNCHANGED <<blob, upgrade, payWindow, editor, data, current_user, screen,
                        regWindow>>
    ELSE SaveNewExhibition(form.ex_id)

\* ------------------------------------------------------ registration form
EmailTexts == {<<>>, <<"j", "@", "x", ".", "i", "o">>, <<"j", "@", "x", "i", "o">>, <<"j", "x", ".", "i", "o">>, <<"j", ".", "d", "@", "x">>}
PhoneTexts == {<<>>, <<"5", "5", "5", "1", "2", "3", "4">>, <<"5", "5", "5", "1", "2", "3">>, <<"5", "5", "5", "1", "2", "3", "a">>}
FormPasswords == RegistrationPasswords \cup {"", "abc"}
\* The forms: the well-formed ones, and those that differ from a well-formed
\* one in one field.
RegistrationForms ==
    LET wellFormed == [username |-> "johndoe", name |-> "Name",
                       email |-> <<"j", "@", "x", ".", "i", "o">>,
                       password |-> "pass456", phone |-> <<"5", "5", "5", "1", "2", "3", "4">>]
    IN {[wellFormed EXCEPT !.username = n] : n \in UserNames \cup {""}}
       \cup {[wellFormed EXCEPT !.name = ""]}
       \cup {[wellFormed EXCEPT !.email = t] : t \in EmailTexts}
       \cup {[wellFormed EXCEPT !.phone = t] : t \in PhoneTexts}
       \cup {[wellFormed EXCEPT !.password = pw] : pw \in FormPasswords}

\* len(password) of the passwords typed into the form.
len(password) ==
    CASE password = "" -> 0
      [] password = "abc" -> 3
      [] password = "pass456" -> 7

\* register, line 157.
ValidPhone(phone) == isdigit(phone) /\ Len(phone) >= 7

\* register, lines 148-165: the error dialog of the first check that fails,
\* NoMsg when the form passes them all.
RegistrationError(form) ==
    IF \/ "" \in {form.username, form.name, form.password}
       \/ <<>> \in {form.email, form.phone}
    THEN "All fields are required."
    ELSE IF ~Contains(form.email, "@") \/ ~Contains(AfterLast(form.email, "@"), ".")
    THEN "Please provide a valid email address."
    ELSE IF ~ValidPhone(form.phone)
    THEN "Phone number should contain only digits."
    ELSE IF len(form.password) < 4
    THEN "Password must be at least 4 characters long."
    ELSE NoMsg

\* RegistrationWindow.register (the Register button).
RegisterForm(form, account_type) ==
    IF RegistrationError(form) # NoMsg
    THEN /\ screen = "AuthFrame"
         /\ msg' = RegistrationError(form)
         /\ UNCHANGED <<blob, upgrade, payWindow, editor, data, current_user, screen,
                        regWindow>>
    ELSE Register(form.username, form.password, account_type)

\* ---------------------------------------------------------------- purchase
\* Texts typed into the PaymentWindow: a well-formed form, and the forms
\* that differ from it in one field.
WellFormedPayment ==
    [card_number |-> <<"4", "1", "1", "1", " ", "1", "1", "1", "1", " ", "1", "1", "1", "1", " ", "1", "1", "1", "1">>,
     expiry |-> <<"1", "2", "/", "3", "0">>, cvv |-> <<"1", "2", "3">>, cardholder |-> <<"J", "o">>]
CardNumberInputs ==
    {<<>>,
     <<"4", "1", "1", "1", "1", "1", "1", "1", "1", "1", "1", "1", "1", "1", "1">>,
     <<"4", "1", "1", "1", "1", "1", "1", "1", "1", "1", "1", "1", "1", "1">>,
     <<"4", "1", "1", "1", "x", "1", "1", "1", "1", "1", "1", "1", "1", "1", "1", "1">>}
ExpiryInputs ==
    {<<>>, <<"1", "3", "/", "3", "0">>, <<"0", "0", "/", "3", "0">>, <<"1", "2", "3", "0">>,
     <<"1", "/", "3", "0">>, <<"a", "b", "/", "3", "0">>, <<"1", "2", "/", "2", "0", "3">>}
CvvInputs == {<<>>, <<"1", "2">>, <<"1", "2", "3", "4">>, <<"1", "2", "a">>}
CardholderInputs == {<<>>, <<" ">>}
PaymentForms ==
    {WellFormedPayment}
    \cup {[WellFormedPayment EXCEPT !.card_number = t] : t \in CardNumberInputs}
    \cup {[WellFormedPayment EXCEPT !.expiry = t] : t \in ExpiryInputs}
    \cup {[WellFormedPayment EXCEPT !.cvv = t] : t \in CvvInputs}
    \cup {[WellFormedPayment EXCEPT !.cardholder = t] : t \in CardholderInputs}

PassTypes == {"ExhibitionPass", "AllAccessPass"}

\* "Purchase New Pass" on the AttendeeDashboard: show_frame("PurchaseFrame").
ShowPurchaseFrame ==
    /\ screen = "AttendeeDashboard"
    /\ screen' = "PurchaseFrame"
    /\ msg' = NoMsg
    /\ UNCHANGED <<blob, upgrade, payWindow, editor, data, current_user, regWindow>>

\* "Back to Dashboard" on the PurchaseFrame.
BackToDashboard ==
    /\ screen = "PurchaseFrame"
    /\ screen' = "AttendeeDashboard"
    /\ msg' = NoMsg
    /\ UNCHANGED <<blob, upgrade, payWindow, editor, data, current_user, regWindow>>

\* PaymentWindow(parent, controller, pass_type, amount, exhibition_id); no
\* exhibition (None) is the empty id.
NewPaymentWindow(pass_type, amount, exhibition_id) ==
    [open |-> TRUE, pass_type |-> pass_type, amount |-> amount,
     exhibition_id |-> exhibition_id]

\* "Continue to Payment" on the PurchaseFrame (show_payment) with the radio
\* button on selected_type; for an ExhibitionPass followed by "Continue to
\* Payment" of the ExhibitionSelectionForPurchase window (proceed_to_payment)
\* with `selection` selected in the list of the exhibitions.
ShowPayment(selected_type, selection) ==
    /\ screen = "PurchaseFrame"
    /\ ~payWindow.open
    /\ IF selected_type = "ExhibitionPass"
       THEN IF ExhibitionsInMap = {}
            THEN /\ msg' = "No exhibitions are currently available."
                 /\ UNCHANGED payWindow
            ELSE IF selection = NoSelection
            THEN /\ msg' = "Please select an exhibition."
                 /\ UNCHANGED payWindow
            ELSE /\ HasExhibition(selection)
                 /\ payWindow' = NewPaymentWindow("ExhibitionPass", 100, selection)
                 /\ msg' = NoMsg
       ELSE /\ selection = NoSelection
            /\ payWindow' = NewPaymentWindow(selected_type, 500, NoSelection)
            /\ msg' = NoMsg
    /\ UNCHANGED <<blob, upgrade, editor, data, current_user, screen, regWindow>>

\* The Cancel button (self.destroy) of the PaymentWindow.
CancelPayment ==
    /\ payWindow.open
    /\ payWindow' = NoPayment
    /\ msg' = NoMsg
    /\ UNCHANGED <<blob, upgrade, editor, data, current_user, screen, regWindow>>

\* A card check that accepts every text.
ValidCardNumber_any(card_number) == TRUE

\* confirm_payment, lines 251-254: digits only once the blanks are removed,
\* fifteen or sixteen of them.
ValidCardNumber(card_number) ==
    /\ isdigit(RemoveSpaces(card_number))
    /\ Len(RemoveSpaces(card_number)) \in {15, 16}

\* confirm_payment, line 257.
ValidCvv(cvv) == isdigit(cvv) /\ Len(cvv) = 3

\* confirm_payment, lines 266-270: MM/YY, two digits each.
ValidExpiryFormat(expiry) ==
    /\ isdigit(Before(expiry, "/")) /\ isdigit(After(expiry, "/"))
    /\ Len(Before(expiry, "/")) = 2 /\ Len(After(expiry, "/")) = 2

\* confirm_payment, lines 239-275: the error dialog of the first check that
\* fails, NoMsg when the form passes them all.
PaymentError(form) ==
    LET card_number == strip(form.card_number)
        expiry == strip(form.expiry)
        cvv == strip(form.cvv)
        cardholder == strip(form.cardholder)
    IN
    IF <<>> \in {card_number, expiry, cvv, cardholder}
    THEN "Please fill in all payment fields."
    ELSE IF ~ValidCardNumber(card_number)
    THEN "Please enter a valid card number."
    ELSE IF ~ValidCvv(cvv)
    THEN "CVV must be a 3-digit number."
    ELSE IF ~Contains(expiry, "/")
    THEN "Expiry date must be in MM/YY format."
    ELSE IF ~ValidExpiryFormat(expiry)
    THEN "Expiry date must be in MM/YY format."
    ELSE IF ~(1 <= int(Before(expiry, "/")) /\ int(Before(expiry, "/")) <= 12)
    THEN "Expiry month must be between 01 and 12."
    ELSE NoMsg

\* A purchase that mints the id before the counter.
NewPass_previousId(selected_type, exhibition_id) ==
    [passId |-> PassIdOf(next_pass_id - 1), kind |-> selected_type,
     price |-> IF selected_type = "ExhibitionPass" THEN 100 ELSE 500,
     exhibition_ids |-> IF selected_type = "ExhibitionPass"
                        THEN <<exhibition_id>> ELSE <<>>]

\* purchase_pass, lines 93-97: the pass that is constructed.
NewPass(selected_type, exhibition_id) ==
    IF selected_type = "ExhibitionPass"
    THEN [passId |-> PassIdOf(next_pass_id), kind |-> "ExhibitionPass",
          price |-> 100,
          exhibition_ids |-> IF exhibition_id # NoSelection
                             THEN <<exhibition_id>> ELSE <<>>]
    ELSE [passId |-> PassIdOf(next_pass_id), kind |-> "AllAccessPass",
          price |-> 500, exhibition_ids |-> <<>>]

SuccessfulPurchase == "You have successfully purchased: <type>"

\* PaymentWindow.confirm_payment (Confirm Payment), which on a form that
\* passes the checks calls PurchaseFrame.purchase_pass and closes the window.
\* purchase_pass increments next_pass_id (line 102) before it appends to
\* user.passes (line 104), where user is the current_user of the moment.
ConfirmPayment(form) ==
    /\ payWindow.open
    /\ IF PaymentError(form) # NoMsg
       THEN /\ msg' = PaymentError(form)
            /\ UNCHANGED <<data, payWindow, screen>>
       ELSE /\ next_pass_id <= MaxPassId
            /\ next_pass_id' = next_pass_id + 1
            /\ IF ~IsAttendee(current_user)
               THEN \* None.passes / Administrator.passes
                    /\ msg' = "AttributeError"
                    /\ UNCHANGED <<userObjs, passObjs, payWindow, screen>>
               ELSE /\ passObjs' = Append(passObjs,
                            NewPass(payWindow.pass_type, payWindow.exhibition_id))
                    /\ userObjs' = [userObjs EXCEPT ![current_user].passes =
                                        Append(@, Len(passObjs) + 1)]
                    /\ msg' = SuccessfulPurchase
                    /\ screen' = "AttendeeDashboard"
                    /\ payWindow' = NoPayment
            /\ UNCHANGED <<users, exhibitions, next_transaction_id,
                           next_reservation_id, exObjs, wsObjs, resObjs>>
    /\ UNCHANGED <<blob, upgrade, editor, current_user, regWindow>>

\* ------------------------------------------------------------- life cycle
\* No MainApplication exists (before start-up, after app.destroy(), or after
\* an exception at start-up).
NotRunning == "(not running)"

\* What happens to the write of save_data: it succeeds; os.makedirs or open
\* raises IOError; or pickle.dump raises IOError after open(DATA_FILE, "wb")
\* emptied the file, with nothing or only a part written.
IOOutcomes ==
    {"ok", "fails before writing", "fails, nothing written",
     "fails, part written"}

\* save_data(data): DATA_FILE afterwards.  IOError is caught and printed.
save_data(a, io) ==
    CASE io = "ok" -> PickleFile(a)
      [] io = "fails before writing" -> blob
      [] io = "fails, nothing written" -> OtherFile("empty")
      [] OTHER -> OtherFile("truncated")

\* A save_data that prints nothing.
SaveReport_silent(io) == NoMsg

\* save_data, lines 27-28: what it prints.
SaveReport(io) == IF io = "ok" THEN NoMsg ELSE "Error saving data"

\* The variables of the aggregate become those of a.
Install(a) ==
    /\ users' = a.users
    /\ exhibitions' = a.exhibitions
    /\ next_pass_id' = a.next_pass_id
    /\ next_transaction_id' = a.next_transaction_id
    /\ next_reservation_id' = a.next_reservation_id
    /\ userObjs' = a.userObjs
    /\ exObjs' = a.exObjs
    /\ wsObjs' = a.wsObjs
    /\ passObjs' = a.passObjs
    /\ resObjs' = a.resObjs

\* load_data raises instead of returning: pickle.load on a file of zero
\* bytes raises EOFError, which `except (IOError, pickle.UnpicklingError)`
\* does not catch.
LoadRaises == blob.state = "empty"

\* load_data returns the unpickled file (line 41); in every other case that
\* returns, it returns initialize_data().
LoadReturnsFile == blob.state = "pickle"

\* main_gui.py, lines 84-85: load_data(), which calls initialize_data (and
\* so save_data) unless it returns the file, then MainApplication(app_data).
Start(io) ==
    /\ screen = NotRunning
    /\ IF LoadRaises
       THEN /\ msg' = "EOFError"
            /\ UNCHANGED <<data, blob, upgrade, current_user, screen, regWindow,
                           payWindow, editor>>
       ELSE /\ IF LoadReturnsFile
               THEN /\ Install(blob.content)
                    /\ msg' = NoMsg
                    /\ UNCHANGED blob
               ELSE /\ Install(SeedAggregate)
                    /\ blob' = save_data(SeedAggregate, io)
                    /\ msg' = IF io = "ok"
                              THEN "Initializing with sample data..."
                              ELSE SaveReport(io)
            /\ current_user' = None
            /\ screen' = "AuthFrame"
            /\ regWindow' = NoWindow
            /\ payWindow' = NoPayment
            /\ editor' = NoEditor
            /\ upgrade' = NoUpgrades

\* on_closing (WM_DELETE_WINDOW): save_data(app.data), then app.destroy().
OnClosing(confirm, io) ==
    /\ screen # NotRunning
    /\ IF confirm
       THEN /\ blob' = save_data(Aggregate, io)
            /\ Install(NoAggregate)
            /\ msg' = SaveReport(io)
            /\ current_user' = None
            /\ screen' = NotRunning
            /\ regWindow' = NoWindow
            /\ payWindow' = NoPayment
            /\ editor' = NoEditor
            /\ upgrade' = NoUpgrades
       ELSE /\ msg' = NoMsg
            /\ UNCHANGED <<data, blob, upgrade, current_user, screen, regWindow,
                           payWindow, editor>>

\* The program before its first start, DATA_FILE being in any state but a
\* pickle written by the program.
FileStatesAtFirstStart ==
    {"absent", "unreadable", "empty", "truncated", "garbage"}

InitStopped ==
    /\ users = NoAggregate.users
    /\ exhibitions = NoAggregate.exhibitions
    /\ next_pass_id = NoAggregate.next_pass_id
    /\ next_transaction_id = NoAggregate.next_transaction_id
    /\ next_reservation_id = NoAggregate.next_reservation_id
    /\ userObjs = NoAggregate.userObjs
    /\ exObjs = NoAggregate.exObjs
    /\ wsObjs = NoAggregate.wsObjs
    /\ passObjs = NoAggregate.passObjs
    /\ resObjs = NoAggregate.resObjs
    /\ current_user = None
    /\ screen = NotRunning
    /\ regWindow = NoWindow
    /\ payWindow = NoPayment
    /\ editor = NoEditor
    /\ upgrade = NoUpgrades
    /\ blob \in {OtherFile(f) : f \in FileStatesAtFirstStart}
    /\ msg = NoMsg

\* ------------------------------------------------------------ pass calls
\* Argument lists of upgrade_pass that are explored.
NewIdLists ==
    {<<>>} \cup {<<x>> : x \in PassExIds}
           \cup {<<x, y>> : x \in PassExIds, y \in PassExIds}

\* A call p.upgrade_pass(new_exhibition_ids) on an ExhibitionPass, as made
\* by UpgradeWindow.upgrade_pass (line 664).
UpgradePassCall(p, new_exhibition_ids) ==
    /\ p \in DOMAIN passObjs
    /\ passObjs[p].kind = "ExhibitionPass"
    /\ Len(passObjs[p].exhibition_ids) + Len(new_exhibition_ids) <= MaxPassLen
    /\ passObjs' = [passObjs EXCEPT ![p].exhibition_ids =
                        upgrade_pass(@, new_exhibition_ids)]
    /\ msg' = NoMsg
    /\ UNCHANGED <<blob, upgrade, payWindow, editor, users, exhibitions, next_pass_id, next_transaction_id,
                   next_reservation_id, userObjs, exObjs, wsObjs, resObjs,
                   current_user, screen, regWindow>>

\* --------------------------------------------------------- upgrade window
\* The order of data["exhibitions"].items() while no exhibition is added:
\* the order in which initialize_data inserts the keys.
ExhibitionOrder == <<"ex1", "ex2", "ex3">>

\* populate_passes: the passes listed in pass_listbox, first row first.
ListedPasses(attendee) ==
    SelectSeq(userObjs[attendee].passes,
              LAMBDA p : passObjs[p].kind = "ExhibitionPass")

\* UpgradeWindow.__init__: keeps the Attendee object and fills pass_listbox.
NewUpgradeWindow(attendee) ==
    [open |-> TRUE, attendee |-> attendee,
     rows |-> Len(ListedPasses(attendee)),
     pass_indices |-> <<>>, ex_items |-> <<>>]

\* AdminDashboard.open_upgrade_window on the row of attendee_id.
OpenUpgradeWindow(k, attendee_id) ==
    /\ screen = "AdminDashboard"
    /\ users[attendee_id] # None
    /\ IsAttendee(users[attendee_id])
    /\ ~upgrade[k].open
    /\ upgrade' = [upgrade EXCEPT ![k] = NewUpgradeWindow(users[attendee_id])]
    /\ msg' = NoMsg
    /\ UNCHANGED <<data, blob, current_user, screen, regWindow, payWindow,
                   editor>>

\* The UpgradeWindow closed by its title bar.
CloseUpgradeWindow(k) ==
    /\ upgrade[k].open
    /\ upgrade' = [upgrade EXCEPT ![k] = NoUpgrade]
    /\ msg' = NoMsg
    /\ UNCHANGED <<data, blob, current_user, screen, regWindow, payWindow,
                   editor>>

\* on_pass_select, line 634, and upgrade_pass, line 657:
\* self.attendee.passes[index], the index being a row of pass_listbox.
SelectedPass(k, row) == userObjs[upgrade[k].attendee].passes[row + 1]

\* on_pass_select, lines 637-641: the ids of the exhibitions that are not on
\* the pass.
ExhibitionsNotOn(p) ==
    SelectSeq(ExhibitionOrder,
              LAMBDA ex_id : /\ HasExhibition(ex_id)
                             /\ ~ListContains(passObjs[p].exhibition_ids, ex_id))

\* UpgradeWindow.on_pass_select for a click on row `row` of pass_listbox.
\* ex_listbox is emptied first; an AllAccessPass has no exhibition_ids.
OnPassSelect(k, row) ==
    /\ upgrade[k].open
    /\ row \in 0 .. (upgrade[k].rows - 1)
    /\ IF passObjs[SelectedPass(k, row)].kind # "ExhibitionPass"
       THEN /\ upgrade' = [upgrade EXCEPT ![k].pass_indices = <<row>>,
                                          ![k].ex_items = <<>>]
            /\ msg' = "AttributeError"
       ELSE /\ upgrade' = [upgrade EXCEPT
                 ![k].pass_indices = <<row>>,
                 ![k].ex_items = ExhibitionsNotOn(SelectedPass(k, row))]
            /\ msg' = NoMsg
    /\ UNCHANGED <<data, blob, current_user, screen, regWindow, payWindow,
                   editor>>

\* upgrade_pass, line 658: the ids of the rows selected in ex_listbox, in
\* the order of the list.
NewExIds(k, selected) ==
    SelectSeq(upgrade[k].ex_items, LAMBDA ex_id : ex_id \in selected)

\* UpgradeWindow.upgrade_pass ("Confirm Upgrade") with the rows `selected`
\* of ex_listbox selected.
UpgradePass(k, selected) ==
    /\ upgrade[k].open
    /\ selected \subseteq Range(upgrade[k].ex_items)
    /\ IF upgrade[k].pass_indices = <<>> \/ selected = {}
       THEN /\ msg' = "Please select a pass and at least one exhibition to add."
            /\ UNCHANGED <<passObjs, upgrade>>
       ELSE LET selected_pass == SelectedPass(k, upgrade[k].pass_indices[1])
            IN IF passObjs[selected_pass].kind # "ExhibitionPass"
               THEN /\ msg' = "AttributeError"
                    /\ UNCHANGED <<passObjs, upgrade>>
               ELSE /\ Len(passObjs[selected_pass].exhibition_ids)
                         + Cardinality(selected) <= MaxPassLen
                    /\ passObjs' = [passObjs EXCEPT ![selected_pass].exhibition_ids =
                                        upgrade_pass(@, NewExIds(k, selected))]
                    /\ msg' = "Pass has been upgraded."
                    /\ upgrade' = [upgrade EXCEPT ![k] = NoUpgrade]
    /\ UNCHANGED <<users, exhibitions, next_pass_id, next_transaction_id,
                   next_reservation_id, userObjs, exObjs, wsObjs, resObjs,
                   blob, current_user, screen, regWindow, payWindow, editor>>

\* ------------------------------------------------ other attendee handlers
\* AttendeeDashboard.open_edit_profile followed by EditProfileWindow
\* .save_changes with every field filled in: it assigns name, email and
\* phone of the user, which no other handler reads.
SaveChanges ==
    /\ screen = "AttendeeDashboard"
    /\ current_user # None
    /\ msg' = "Your profile has been updated."
    /\ UNCHANGED <<data, blob, upgrade, current_user, screen, regWindow, payWindow,
                   editor>>

\* reserve_spot, lines 96-102: the first ExhibitionPass of the user, or None.
FirstExhibitionPass(user) ==
    LET own == userObjs[user].passes
        at == {i \in 1..Len(own) : passObjs[own[i]].kind = "ExhibitionPass"}
    IN IF at = {} THEN None
       ELSE own[CHOOSE i \in at : \A j \in at : i <= j]

\* A reserve_spot whose call of controller.save_data() writes DATA_FILE.
ReserveSpot_saving(selection) ==
    /\ screen # NotRunning
    /\ IsAttendee(current_user)
    /\ selection # NoSelection
    /\ HasExhibition(selection)
    /\ FirstExhibitionPass(current_user) # None
    /\ LET valid_pass == FirstExhibitionPass(current_user)
       IN /\ ~ListContains(passObjs[valid_pass].exhibition_ids, selection)
          /\ Len(passObjs[valid_pass].exhibition_ids) < MaxPassLen
          /\ passObjs' = [passObjs EXCEPT ![valid_pass].exhibition_ids =
                              Append(@, selection)]
    /\ msg' = "Exhibition reserved successfully!"
    /\ UNCHANGED <<users, exhibitions, next_pass_id, next_transaction_id,
                   next_reservation_id, userObjs, exObjs, wsObjs, resObjs,
                   current_user, screen, regWindow, payWindow, editor,
                   upgrade>>
    /\ blob' = PickleFile(Aggregate)'

\* ExhibitionReservationFrame.reserve_spot.  MainApplication builds the
\* frame (main_gui.py, line 43) and no handler raises it; its buttons stay
\* mapped under the frame that is shown and are reached by keyboard
\* traversal.  The list holds the exhibitions of the aggregate at start-up.
\* MainApplication has no save_data, so line 109 raises AttributeError
\* after line 108 appended the id.
ReserveSpot(selection) ==
    /\ screen # NotRunning
    /\ selection = NoSelection \/ HasExhibition(selection)
    /\ IF selection = NoSelection
       THEN /\ msg' = "Please select an exhibition."
            /\ UNCHANGED <<passObjs, screen>>
       ELSE IF current_user = None
       THEN /\ msg' = "Please log in again."
            /\ screen' = "AuthFrame"
            /\ UNCHANGED passObjs
       ELSE IF ~IsAttendee(current_user)
       THEN /\ msg' = "AttributeError"
            /\ UNCHANGED <<passObjs, screen>>
       ELSE IF FirstExhibitionPass(current_user) = None
       THEN /\ msg' = "No valid Exhibition Pass found."
            /\ UNCHANGED <<passObjs, screen>>
       ELSE LET valid_pass == FirstExhibitionPass(current_user)
            IN IF ListContains(passObjs[valid_pass].exhibition_ids, selection)
               THEN /\ msg' = "You have already reserved this exhibition."
                    /\ UNCHANGED <<passObjs, screen>>
               ELSE /\ Len(passObjs[valid_pass].exhibition_ids) < MaxPassLen
                    /\ passObjs' = [passObjs EXCEPT ![valid_pass].exhibition_ids =
                                        Append(@, selection)]
                    /\ msg' = "AttributeError"
                    /\ UNCHANGED screen
    /\ UNCHANGED <<users, exhibitions, next_pass_id, next_transaction_id,
                   next_reservation_id, userObjs, exObjs, wsObjs, resObjs,
                   blob, upgrade, current_user, regWindow, payWindow, editor>>

\* The process ends without on_closing (it is killed, or the machine loses
\* power): its memory is gone and nothing is written.
Kill ==
    /\ screen # NotRunning
    /\ Install(NoAggregate)
    /\ msg' = NoMsg
    /\ current_user' = None
    /\ screen' = NotRunning
    /\ regWindow' = NoWindow
    /\ payWindow' = NoPayment
    /\ editor' = NoEditor
    /\ upgrade' = NoUpgrades
    /\ UNCHANGED blob

\* --------------------------------------------------------- specifications
\* The reservation life cycle: attendees log in, open registration windows
\* (which stay open across logout and login), reserve and delete their
\* account; the administrator deletes workshops and exhibitions.
Next ==
    \/ \E n \in UserNames, pw \in Passwords : Login(n, pw)
    \/ Logout
    \/ \E c \in BOOLEAN : DeleteAccount(c)
    \/ \E i \in 1..2 : OpenWorkshopRegistration(i)
    \/ \E i \in 1..2, e \in ExIds \cup {NoSelection} : SelectAndRegister(i, e)
    \/ \E w \in WsIds \cup {NoSelection} : AddWorkshop(w)
    \/ Cancel
    \/ \E e \in ExIds, c \in BOOLEAN : DeleteExhibition(e, c)
    \/ \E e \in ExIds, w \in WsIds, c \in BOOLEAN : DeleteWorkshop(e, w, c)

Spec == Init /\ [][Next]_vars

\* Reservations while the administrator edits workshop capacities.
NextCapacity ==
    \/ \E n \in UserNames, pw \in Passwords : Login(n, pw)
    \/ Logout
    \/ \E i \in 1..2 : OpenWorkshopRegistration(i)
    \/ \E i \in 1..2, e \in ExIds \cup {NoSelection} : SelectAndRegister(i, e)
    \/ \E w \in WsIds \cup {NoSelection} : AddWorkshop(w)
    \/ Cancel
    \/ \E e \in ExIds, w \in WsIds, c \in CapacityInputs : SaveEditedWorkshop(e, w, c)

SpecCapacity == Init /\ [][NextCapacity]_vars

\* Accounts: login, logout, registration and account deletion, with the
\* reservations the attendees make in between.
NextAccounts ==
    \/ \E n \in UserNames, pw \in Passwords : Login(n, pw)
    \/ Logout
    \/ \E c \in BOOLEAN : DeleteAccount(c)
    \/ \E n \in UserNames, pw \in RegistrationPasswords, t \in AccountTypes :
          Register(n, pw, t)
    \/ \E i \in 1..2 : OpenWorkshopRegistration(i)
    \/ \E i \in 1..2, e \in ExIds \cup {NoSelection} : SelectAndRegister(i, e)
    \/ \E w \in WsIds \cup {NoSelection} : AddWorkshop(w)
    \/ Cancel

SpecAccounts == Init /\ [][NextAccounts]_vars

\* Content management by the administrator.
NextContent ==
    \/ \E n \in UserNames, pw \in Passwords : Login(n, pw)
    \/ Logout
    \/ \E e \in ExIds, c \in BOOLEAN : DeleteExhibition(e, c)
    \/ \E e \in ExIds, w \in WsIds, c \in BOOLEAN : DeleteWorkshop(e, w, c)
    \/ \E e \in ExIds : SaveNewExhibition(e)
    \/ \E e \in ExIds, w \in WsIds, c \in CapacityInputs : SaveNewWorkshop(e, w, c)
    \/ \E e \in ExIds, w \in WsIds, c \in CapacityInputs : SaveEditedWorkshop(e, w, c)

SpecContent == Init /\ [][NextContent]_vars

\* Sessions: the program is started, used and closed, again and again.
NextPersistence ==
    \/ \E io \in IOOutcomes : Start(io)
    \/ \E c \in BOOLEAN, io \in IOOutcomes : OnClosing(c, io)
    \/ \E n \in UserNames, pw \in Passwords : Login(n, pw)
    \/ Logout
    \/ \E i \in 1..2 : OpenWorkshopRegistration(i)
    \/ \E w \in WsIds \cup {NoSelection} : AddWorkshop(w)
    \/ Cancel
    \/ \E e \in ExIds, w \in WsIds, c \in BOOLEAN : DeleteWorkshop(e, w, c)

SpecPersistence == InitStopped /\ [][NextPersistence]_vars

\* Purchases: attendees buy passes in payment windows that stay open
\* across logout and login.
NextPurchase ==
    \/ \E n \in UserNames, pw \in Passwords : Login(n, pw)
    \/ Logout
    \/ ShowPurchaseFrame
    \/ BackToDashboard
    \/ \E t \in PassTypes, e \in ExIds \cup {NoSelection} : ShowPayment(t, e)
    \/ CancelPayment
    \/ \E f \in PaymentForms : ConfirmPayment(f)

SpecPurchase == Init /\ [][NextPurchase]_vars

\* The forms: registration, the editors of the administrator and the
\* payment window, in sessions that end with the deletion of the account.
NextForms ==
    \/ \E n \in UserNames, pw \in Passwords : Login(n, pw)
    \/ \E c \in BOOLEAN : DeleteAccount(c)
    \/ \E f \in RegistrationForms, t \in AccountTypes : RegisterForm(f, t)
    \/ \E f \in ExhibitionForms : SaveExhibitionForm(f)
    \/ \E e \in ExIds, w \in WsIds \cup {NoSelection} : OpenWorkshopEditor(e, w)
    \/ CloseEditor
    \/ \E f \in WorkshopForms : EditorSave(f)
    \/ ShowPurchaseFrame
    \/ \E t \in PassTypes, e \in ExIds \cup {NoSelection} : ShowPayment(t, e)
    \/ CancelPayment
    \/ \E f \in PaymentForms : ConfirmPayment(f)

SpecForms == Init /\ [][NextForms]_vars

\* The id counters: purchases and reservations of the attendees in
\* sessions that end with the deletion of the account, and the workshops
\* deleted by the administrator.
NextIds ==
    \/ \E n \in UserNames, pw \in Passwords : Login(n, pw)
    \/ \E c \in BOOLEAN : DeleteAccount(c)
    \/ ShowPurchaseFrame
    \/ BackToDashboard
    \/ \E t \in PassTypes, e \in ExIds \cup {NoSelection} : ShowPayment(t, e)
    \/ CancelPayment
    \/ ConfirmPayment(WellFormedPayment)
    \/ \E i \in 1..2 : OpenWorkshopRegistration(i)
    \/ \E w \in WsIds \cup {NoSelection} : AddWorkshop(w)
    \/ Cancel
    \/ \E e \in ExIds, w \in WsIds, c \in BOOLEAN : DeleteWorkshop(e, w, c)

SpecIds == Init /\ [][NextIds]_vars

\* A session of the administrator: the workshop editor, which stays open
\* while exhibitions are deleted.
NextEditor ==
    \/ \E n \in UserNames, pw \in Passwords : Login(n, pw)
    \/ \E e \in ExIds, w \in WsIds \cup {NoSelection} : OpenWorkshopEditor(e, w)
    \/ CloseEditor
    \/ \E f \in WorkshopForms \cup SignedCapacityForms : EditorSave(f)
    \/ \E e \in ExIds, c \in BOOLEAN : DeleteExhibition(e, c)

SpecEditor == Init /\ [][NextEditor]_vars

\* The pass methods called on the passes of the aggregate.
NextPass ==
    \E p \in 1..2, ids \in NewIdLists : UpgradePassCall(p, ids)

SpecPass == Init /\ [][NextPass]_vars

\* The users that log in during the sessions below.
SessionUsers == {"admin", "johndoe"}

\* Sessions that change the aggregate in every way the screens offer, and
\* end with the closing save or without it.
NextSessions ==
    \/ \E io \in IOOutcomes : Start(io)
    \/ \E c \in BOOLEAN, io \in IOOutcomes : OnClosing(c, io)
    \/ Kill
    \/ \E n \in SessionUsers, pw \in Passwords : Login(n, pw)
    \/ \E n \in SessionUsers, pw \in RegistrationPasswords :
          Register(n, pw, "Attendee")
    \/ \E c \in BOOLEAN : DeleteAccount(c)
    \/ SaveChanges
    \/ \E e \in ExIds \cup {NoSelection} : ReserveSpot(e)
    \/ ShowPurchaseFrame
    \/ ShowPayment("ExhibitionPass", "ex2")
    \/ ConfirmPayment(WellFormedPayment)
    \/ OpenWorkshopRegistration(1)
    \/ AddWorkshop("ws2")
    \/ SaveEditedWorkshop("ex1", "ws1", 0)
    \/ DeleteWorkshop("ex1", "ws2", TRUE)

SpecSessions == Init /\ [][NextSessions]_vars

\* Upgrades: attendees buy passes, and the administrator upgrades them in
\* UpgradeWindows, of which several can be open at once.
NextUpgrade ==
    \/ \E n \in UserNames, pw \in Passwords : Login(n, pw)
    \/ Logout
    \/ ShowPurchaseFrame
    \/ \E t \in PassTypes, e \in ExIds \cup {NoSelection} : ShowPayment(t, e)
    \/ ConfirmPayment(WellFormedPayment)
    \/ \E k \in UpgradeWindows, a \in UserNames : OpenUpgradeWindow(k, a)
    \/ \E k \in UpgradeWindows, row \in 0 .. 2 : OnPassSelect(k, row)
    \/ \E k \in UpgradeWindows, selected \in SUBSET ExIds : UpgradePass(k, selected)

SpecUpgrade == Init /\ [][NextUpgrade]_vars

\* An attendee whose pass the administrator upgrades, and who reserves
\* whatever the dashboard lets them reserve.
NextUpgraded ==
    \/ \E n \in SessionUsers, pw \in Passwords : Login(n, pw)
    \/ Logout
    \/ \E n \in SessionUsers : OpenUpgradeWindow(1, n)
    \/ \E row \in 0 .. 1 : OnPassSelect(1, row)
    \/ \E selected \in SUBSET ExIds : UpgradePass(1, selected)
    \/ \E i \in 1 .. 2 : OpenWorkshopRegistration(i)
    \/ \E w \in WsIds \cup {NoSelection} : AddWorkshop(w)
    \/ Cancel

\* The attendee does not give up: they log in again and again, open every
\* registration window the dashboard offers, and add every workshop that can
\* be added.
SpecUpgraded ==
    /\ Init
    /\ [][NextUpgraded]_vars
    /\ SF_vars(\E n \in SessionUsers, pw \in Passwords :
                  Login(n, pw) /\ IsAttendee(current_user'))
    /\ SF_vars(Logout)
    /\ \A i \in 1 .. 2 : SF_vars(OpenWorkshopRegistration(i))
    /\ \A w \in WsIds : SF_vars(AddWorkshop(w) /\ msg' = SuccessMsg)

\* Everything that happens around a reservation: the sessions of its
\* attendee, of another attendee and of the administrator, with a purchase,
\* a profile edit, an upgrade, a capacity edit and the deletions.
NextLasting ==
    \/ \E n \in UserNames, pw \in Passwords : Login(n, pw)
    \/ Logout
    \/ SaveChanges
    \/ ShowPurchaseFrame
    \/ ShowPayment("AllAccessPass", NoSelection)
    \/ ConfirmPayment(WellFormedPayment)
    \/ OpenUpgradeWindow(1, "johndoe")
    \/ OnPassSelect(1, 0)
    \/ UpgradePass(1, {"ex2"})
    \/ SaveEditedWorkshop("ex1", "ws1", 0)
    \/ OpenWorkshopRegistration(1)
    \/ SelectAndRegister(1, "ex1")
    \/ \E w \in {"ws1", "ws2"} : AddWorkshop(w)
    \/ DeleteExhibition("ex1", TRUE)
    \/ \E w \in {"ws1", "ws2"} : DeleteWorkshop("ex1", w, TRUE)

SpecLasting == Init /\ [][NextLasting]_vars

\* Sessions with a RegistrationWindow, a PaymentWindow and a
\* WorkshopRegistrationWindow that stay open across login, logout and
\* account deletion.
NextCurrentUser ==
    \/ \E n \in UserNames, pw \in Passwords : Login(n, pw)
    \/ Logout
    \/ \E c \in BOOLEAN : DeleteAccount(c)
    \/ \E n \in UserNames, pw \in RegistrationPasswords, t \in AccountTypes :
          RegisterInWindow(n, pw, t)
    \/ ShowPurchaseFrame
    \/ BackToDashboard
    \/ ShowPayment("ExhibitionPass", "ex2")
    \/ ConfirmPayment(WellFormedPayment)
    \/ \E i \in 1..2 : OpenWorkshopRegistration(i)
    \/ \E w \in WsIds \cup {NoSelection} : AddWorkshop(w)
    \/ Cancel

SpecCurrentUser == Init /\ [][NextCurrentUser]_vars

\* ------------------------------------------------------------ properties
\* The workshop the Add button acts on when row `selection` is selected.
TargetWorkshop(selection) ==
    FindWorkshop(exObjs[regWindow.exhibition].workshops, selection)

\* Attendee a holds a reservation for a workshop with the workshopId of w.
HoldsReservationFor(a, w) ==
    \E r \in Range(userObjs[a].reservations) :
        wsObjs[resObjs[r].workshop].workshopId = wsObjs[w].workshopId

\* The reservations lists of every attendee but a, and of every workshop
\* but w, are the same before and after the step.
OtherListsUnchanged(a, w) ==
    /\ DOMAIN userObjs' = DOMAIN userObjs
    /\ DOMAIN wsObjs' = DOMAIN wsObjs
    /\ \A u \in DOMAIN userObjs \ {a} :
          userObjs'[u].reservations = userObjs[u].reservations
    /\ \A x \in DOMAIN wsObjs \ {w} :
          wsObjs'[x].reservations = wsObjs[x].reservations

\* C1: when add_workshop succeeds for attendee A and workshop W (a workshop
\* is selected, A holds no reservation for it and it is not full), exactly
\* one new Reservation with status "Confirmed", attendee A and workshop W is
\* appended to A.reservations and to W.reservations, the same object in both,
\* and no other reservations list changes.
C1_CreateAppendsToBothLists ==
    [][\A s \in WsIds :
          ( /\ AddWorkshop(s)
            /\ TargetWorkshop(s) # None
            /\ IsAttendee(current_user)
            /\ ~HoldsReservationFor(current_user, TargetWorkshop(s))
            /\ check_availability(TargetWorkshop(s)) > 0 )
          => LET A == current_user
                 W == TargetWorkshop(s)
                 r == Len(resObjs) + 1
             IN /\ Len(resObjs') = r
                /\ \A k \in DOMAIN resObjs : resObjs'[k] = resObjs[k]
                /\ resObjs'[r].status = "Confirmed"
                /\ resObjs'[r].attendee = A
                /\ resObjs'[r].workshop = W
                /\ userObjs'[A].reservations = Append(userObjs[A].reservations, r)
                /\ wsObjs'[W].reservations = Append(wsObjs[W].reservations, r)
                /\ OtherListsUnchanged(A, W)
      ]_vars

\* C1 happens: the last handler created a reservation that is the last
\* element of the list of its attendee and of the list of its workshop.
C1_Created ==
    /\ msg = SuccessMsg
    /\ Len(resObjs) >= 2
    /\ LET r == Len(resObjs) IN
         /\ resObjs[r].status = "Confirmed"
         /\ userObjs[resObjs[r].attendee].reservations # <<>>
         /\ wsObjs[resObjs[r].workshop].reservations # <<>>
         /\ userObjs[resObjs[r].attendee].reservations[
                Len(userObjs[resObjs[r].attendee].reservations)] = r
         /\ wsObjs[resObjs[r].workshop].reservations[
                Len(wsObjs[resObjs[r].workshop].reservations)] = r

\* C2: when attendee A already holds a reservation whose workshop has the
\* workshopId of W, add_workshop for A and W is rejected: A.reservations,
\* W.reservations and next_reservation_id are left as they were.
C2_DuplicateRejected ==
    [][\A s \in WsIds :
          ( /\ AddWorkshop(s)
            /\ TargetWorkshop(s) # None
            /\ IsAttendee(current_user)
            /\ HoldsReservationFor(current_user, TargetWorkshop(s)) )
          => /\ msg' = "You already have a reservation for this workshop."
             /\ userObjs'[current_user].reservations
                  = userObjs[current_user].reservations
             /\ wsObjs'[TargetWorkshop(s)].reservations
                  = wsObjs[TargetWorkshop(s)].reservations
             /\ next_reservation_id' = next_reservation_id
             /\ resObjs' = resObjs
      ]_vars

\* C2 happens: the duplicate was reported to the logged-in attendee, who
\* holds a reservation for a workshop of the open window.
C2_DuplicateReported ==
    /\ msg = "You already have a reservation for this workshop."
    /\ IsAttendee(current_user)
    /\ regWindow.open
    /\ \E w \in Range(exObjs[regWindow.exhibition].workshops) :
          HoldsReservationFor(current_user, w)

\* C3: when W.check_availability() <= 0, add_workshop for W is rejected
\* whoever the attendee is: no attendee's list, W.reservations and
\* next_reservation_id are left as they were.
C3_FullRejected ==
    [][\A s \in WsIds :
          ( /\ AddWorkshop(s)
            /\ TargetWorkshop(s) # None
            /\ check_availability(TargetWorkshop(s)) <= 0 )
          => /\ msg' # SuccessMsg
             /\ \A u \in DOMAIN userObjs :
                   userObjs'[u].reservations = userObjs[u].reservations
             /\ DOMAIN userObjs' = DOMAIN userObjs
             /\ wsObjs'[TargetWorkshop(s)].reservations
                  = wsObjs[TargetWorkshop(s)].reservations
             /\ next_reservation_id' = next_reservation_id
             /\ resObjs' = resObjs
      ]_vars

\* C3 happens: an attendee without a reservation for a full workshop of the
\* open window was told that the workshop is full.
C3_FullReported ==
    /\ msg = "This workshop is full."
    /\ IsAttendee(current_user)
    /\ regWindow.open
    /\ \E w \in Range(exObjs[regWindow.exhibition].workshops) :
          /\ check_availability(w) <= 0
          /\ wsObjs[w].capacity > 0
          /\ ~HoldsReservationFor(current_user, w)

\* C4: check_availability() is capacity minus the number of reservations in
\* the workshop's list in every state; a step that creates a reservation for
\* workshop w lowers the availability of w by exactly 1; and a step that
\* does not edit the capacity of w never takes its availability from >= 0
\* to below 0.
C4_Availability ==
    /\ [](\A w \in DOMAIN wsObjs :
            check_availability(w) + Cardinality(DOMAIN wsObjs[w].reservations)
                = wsObjs[w].capacity)
    /\ [][\A w \in DOMAIN wsObjs :
            ( /\ Len(resObjs') = Len(resObjs) + 1
              /\ resObjs'[Len(resObjs')].workshop = w )
            => check_availability(w)' = check_availability(w) - 1
         ]_vars
    /\ [][\A w \in DOMAIN wsObjs :
            ( /\ wsObjs'[w].capacity = wsObjs[w].capacity
              /\ check_availability(w) >= 0 )
            => check_availability(w)' >= 0
         ]_vars

\* C4 happens: the reservation created last took the last seat of a workshop
\* whose list holds as many reservations as its capacity.
C4_LastSeatTaken ==
    /\ msg = SuccessMsg
    /\ LET w == resObjs[Len(resObjs)].workshop IN
         /\ wsObjs[w].capacity > 0
         /\ Len(wsObjs[w].reservations) = wsObjs[w].capacity
         /\ check_availability(w) = 0

\* C5: in every state, every reservation in the list of a workshop of an
\* exhibition of the aggregate is also in the list of an attendee that is a
\* value of the users map.
C5_ListsInSync ==
    \A w \in WorkshopsInData :
        \A r \in Range(wsObjs[w].reservations) :
            \E a \in AttendeesInMap : r \in Range(userObjs[a].reservations)

\* The elements of lst that are not in the set `removed`, in order.
Without(lst, removed) == SelectSeq(lst, LAMBDA x : x \notin removed)

\* C6: a confirmed delete of exhibition E removes E from the exhibitions map
\* and with it its workshops from the aggregate, and removes from the list of
\* every attendee exactly the reservations whose workshop belonged to E; the
\* other exhibitions, every workshop and the other reservations are unchanged.
C6_DeleteExhibitionCascades ==
    [][\A e \in ExIds :
          DeleteExhibition(e, TRUE)
          => LET E == exhibitions[e]
                 ofE == Range(exObjs[E].workshops)
             IN /\ exhibitions'[e] = None
                /\ \A x \in ExIds \ {e} : exhibitions'[x] = exhibitions[x]
                /\ WorkshopsInData' = WorkshopsInData \ ofE
                /\ exObjs' = exObjs
                /\ wsObjs' = wsObjs
                /\ resObjs' = resObjs
                /\ users' = users
                /\ \A a \in AttendeesInMap :
                      userObjs'[a].reservations =
                          Without(userObjs[a].reservations,
                                  {r \in DOMAIN resObjs : resObjs[r].workshop \in ofE})
      ]_vars

\* C6 happens: ex1 was deleted, johndoe lost the reservation for its workshop
\* ws1 and janedoe still holds a reservation for a workshop of ex2.
C6_ExhibitionDeleted ==
    /\ msg = "Exhibition deleted."
    /\ exhibitions["ex1"] = None
    /\ exhibitions["ex2"] # None
    /\ users["johndoe"] = 2
    /\ users["janedoe"] = 3
    /\ userObjs[2].reservations = <<>>
    /\ 1 \in Range(wsObjs[1].reservations)
    /\ \E r \in Range(userObjs[3].reservations) :
          resObjs[r].workshop \in Range(exObjs[exhibitions["ex2"]].workshops)

\* C7: a confirmed delete of workshop W removes W from the workshop list of
\* its exhibition and removes from the list of every attendee exactly the
\* reservations for W; the other workshops of the exhibition, the other
\* exhibitions and the reservations for other workshops are unchanged.
C7_DeleteWorkshopCascades ==
    [][\A e \in ExIds, id \in WsIds :
          DeleteWorkshop(e, id, TRUE)
          => LET E == exhibitions[e]
                 W == {w \in Range(exObjs[E].workshops) : wsObjs[w].workshopId = id}
             IN /\ exObjs'[E].workshops = Without(exObjs[E].workshops, W)
                /\ DOMAIN exObjs' = DOMAIN exObjs
                /\ \A x \in DOMAIN exObjs \ {E} : exObjs'[x] = exObjs[x]
                /\ exhibitions' = exhibitions
                /\ wsObjs' = wsObjs
                /\ resObjs' = resObjs
                /\ users' = users
                /\ \A a \in AttendeesInMap :
                      userObjs'[a].reservations =
                          Without(userObjs[a].reservations,
                                  {r \in DOMAIN resObjs : resObjs[r].workshop \in W})
      ]_vars

\* C7 happens: ws1 was deleted from ex1, which keeps ws2; johndoe lost the
\* reservation for ws1 and keeps the one made for ws2.
C7_WorkshopDeleted ==
    /\ msg = "Workshop deleted."
    /\ exhibitions["ex1"] = 1
    /\ exObjs[1].workshops = <<2>>
    /\ users["johndoe"] = 2
    /\ Len(resObjs) >= 2
    /\ resObjs[2].workshop = 2
    /\ userObjs[2].reservations = <<2>>

\* C8: a confirmed delete of the account of the logged-in attendee removes
\* that userId, and nothing else, from the users map and sets current_user to
\* None; the exhibitions, every workshop (its reservations list and its
\* availability) and the three id counters are unchanged; afterwards no
\* password logs that userId in, and a login with a userId that is not in the
\* users map leaves current_user and the screen as they are.
C8_DeleteAccountFrame ==
    /\ [][\A id \in UserNames :
             (DeleteAccount(TRUE) /\ id = userObjs[current_user].userId)
             => /\ users'[id] = None
                /\ \A n \in UserNames \ {id} : users'[n] = users[n]
                /\ current_user' = None
                /\ screen' = "AuthFrame"
                /\ exhibitions' = exhibitions
                /\ exObjs' = exObjs
                /\ wsObjs' = wsObjs
                /\ \A w \in DOMAIN wsObjs :
                      check_availability(w)' = check_availability(w)
                /\ next_pass_id' = next_pass_id
                /\ next_transaction_id' = next_transaction_id
                /\ next_reservation_id' = next_reservation_id
                /\ \A pw \in Passwords : ~CanLogin(id, pw)'
         ]_vars
    /\ [][\A n \in UserNames, pw \in Passwords :
             (Login(n, pw) /\ users[n] = None)
             => /\ current_user' = current_user
                /\ screen' = screen
                /\ msg' = "Invalid username or password."
         ]_vars

\* C8 happens: johndoe deleted the account, and the list of ws1 still holds
\* the reservation johndoe made.
C8_AccountDeleted ==
    /\ msg = "Your account has been successfully deleted."
    /\ current_user = None
    /\ users["johndoe"] = None
    /\ 1 \in Range(wsObjs[1].reservations)
    /\ check_availability(1) = wsObjs[1].capacity - Len(wsObjs[1].reservations)

\* C9: for every exhibition id x, an ExhibitionPass is eligible for x if and
\* only if x is an element of its exhibition_ids, and an AllAccessPass is
\* eligible for x.
C9_Eligibility ==
    \A p \in DOMAIN passObjs : \A x \in PassExIds :
        is_eligible(p, x) <=>
            \/ passObjs[p].kind = "AllAccessPass"
            \/ /\ passObjs[p].kind = "ExhibitionPass"
               /\ \E i \in DOMAIN passObjs[p].exhibition_ids :
                     passObjs[p].exhibition_ids[i] = x

\* C9 happens: an ExhibitionPass is eligible for its second id and not for
\* an id it does not hold, for which the AllAccessPass is eligible.
C9_SecondIdEligible ==
    /\ passObjs[1].exhibition_ids = <<"ex1", "ex2">>
    /\ is_eligible(1, "ex2")
    /\ ~is_eligible(1, "ex3")
    /\ is_eligible(2, "ex3")

\* Number of occurrences of x in lst.
Count(lst, x) == Cardinality({i \in DOMAIN lst : lst[i] = x})

\* C10: upgrade_pass(ids) makes exhibition_ids the old list followed by ids
\* (no id is dropped: every id occurs as often as in the old list plus as
\* often as in ids); every exhibition that was eligible stays eligible and
\* every id of ids is eligible afterwards.
C10_UpgradeAppends ==
    [][\A p \in DOMAIN passObjs : \A ids \in NewIdLists :
          UpgradePassCall(p, ids)
          => LET old == passObjs[p].exhibition_ids
                 new == passObjs'[p].exhibition_ids
             IN /\ Len(new) = Len(old) + Len(ids)
                /\ \A i \in DOMAIN old : new[i] = old[i]
                /\ \A i \in DOMAIN ids : new[Len(old) + i] = ids[i]
                /\ \A x \in PassExIds :
                      Count(new, x) = Count(old, x) + Count(ids, x)
                /\ \A x \in PassExIds :
                      is_eligible(p, x) => is_eligible(p, x)'
                /\ \A i \in DOMAIN ids : is_eligible(p, ids[i])'
      ]_vars

\* C10 happens: after two upgrades with ex2 the pass holds ex2 twice.
C10_SameIdTwice ==
    /\ passObjs[1].exhibition_ids = <<"ex1", "ex2", "ex2">>
    /\ is_eligible(1, "ex1")
    /\ is_eligible(1, "ex2")

\* C11: load_data always returns an aggregate: at start-up the program
\* comes up, with the aggregate of the file when the file is a readable
\* pickle, and with the seed for every other state of the file (absent,
\* unreadable, garbage, empty, truncated).
C11_LoadAlwaysReturns ==
    [][\A io \in IOOutcomes :
          Start(io)
          => /\ screen' = "AuthFrame"
             /\ IF blob.state = "pickle"
                THEN Aggregate' = blob.content
                ELSE Aggregate' = SeedAggregate
      ]_vars

\* C12: a save whose write fails is reported and save_data returns: the
\* start-up that seeds the data goes on with the seed aggregate in memory and
\* raises the login screen; a close ends the program without an exception.
\* The failed write leaves the file as it was, or empty or truncated.
C12_FailedSaveNotFatal ==
    /\ [][\A io \in IOOutcomes \ {"ok"} :
             (Start(io) /\ ~LoadRaises /\ ~LoadReturnsFile)
             => /\ msg' = "Error saving data"
                /\ Aggregate' = SeedAggregate
                /\ screen' = "AuthFrame"
                /\ blob' = blob \/ blob'.state \in {"empty", "truncated"}
         ]_vars
    /\ [][\A io \in IOOutcomes \ {"ok"} :
             OnClosing(TRUE, io)
             => /\ msg' = "Error saving data"
                /\ screen' = NotRunning
                /\ blob' = blob \/ blob'.state \in {"empty", "truncated"}
         ]_vars

\* C12 happens: the save of the seed failed (no file exists while the
\* program runs), and a reservation has been created since.
C12_UsedAfterFailedSave ==
    /\ blob.state = "absent"
    /\ screen = "AttendeeDashboard"
    /\ msg = SuccessMsg
    /\ next_reservation_id = 3

\* C13: the aggregate initialize_data returns has exactly 3 exhibitions with
\* 9 workshops in total, 1 administrator, 2 attendees, the ExhibitionPass
\* pass1 for ex1 held by johndoe, the reservation res1 of johndoe for ws1
\* (capacity 50, availability 49) in both lists, and the three counters at 2;
\* when the write succeeds the file holds this aggregate.
C13_SeedContents ==
    [][\A io \in IOOutcomes :
          (Start(io) /\ ~LoadRaises /\ ~LoadReturnsFile)
          => ( /\ Cardinality(ExhibitionsInMap) = 3
               /\ Cardinality(WorkshopsInData) = 9
               /\ \A e \in ExhibitionsInMap : Len(exObjs[e].workshops) = 3
               /\ Cardinality({u \in UsersInMap :
                                 userObjs[u].kind = "Administrator"}) = 1
               /\ Cardinality(AttendeesInMap) = 2
               /\ Cardinality(UsersInMap) = 3
               /\ Len(passObjs) = 1
               /\ passObjs[1].passId = PassIdOf(1)
               /\ passObjs[1].kind = "ExhibitionPass"
               /\ passObjs[1].exhibition_ids = <<"ex1">>
               /\ userObjs[users["johndoe"]].passes = <<1>>
               /\ \A u \in UsersInMap \ {users["johndoe"]} :
                     userObjs[u].passes = <<>> /\ userObjs[u].reservations = <<>>
               /\ Len(resObjs) = 1
               /\ resObjs[1].reservationId = ReservationIdOf(1)
               /\ resObjs[1].status = "Confirmed"
               /\ resObjs[1].attendee = users["johndoe"]
               /\ wsObjs[resObjs[1].workshop].workshopId = "ws1"
               /\ resObjs[1].workshop \in Range(exObjs[exhibitions["ex1"]].workshops)
               /\ wsObjs[resObjs[1].workshop].capacity = 50
               /\ check_availability(resObjs[1].workshop) = 49
               /\ userObjs[users["johndoe"]].reservations = <<1>>
               /\ wsObjs[resObjs[1].workshop].reservations = <<1>>
               /\ \A w \in WorkshopsInData \ {resObjs[1].workshop} :
                     wsObjs[w].reservations = <<>>
               /\ next_pass_id = 2
               /\ next_transaction_id = 2
               /\ next_reservation_id = 2
               /\ io = "ok" => blob = PickleFile(Aggregate) )'
      ]_vars

\* C13 happens: the program was started without a file and runs on the seed
\* it wrote to the file.
C13_Seeded ==
    /\ msg = "Initializing with sample data..."
    /\ screen = "AuthFrame"
    /\ blob.state = "pickle"
    /\ blob.content = Aggregate
    /\ Cardinality(WorkshopsInData) = 9

\* What an aggregate says in terms of ids: a reservation as its id, status
\* and the ids of its attendee and workshop.
ResView(a, r) ==
    [reservationId |-> a.resObjs[r].reservationId,
     status |-> a.resObjs[r].status,
     attendee |-> a.userObjs[a.resObjs[r].attendee].userId,
     workshop |-> a.wsObjs[a.resObjs[r].workshop].workshopId]

ResListView(a, lst) == [i \in DOMAIN lst |-> ResView(a, lst[i])]

UserView(a, u) ==
    [userId |-> a.userObjs[u].userId, kind |-> a.userObjs[u].kind,
     passwordHash |-> a.userObjs[u].passwordHash,
     passes |-> [i \in DOMAIN a.userObjs[u].passes |->
                   a.passObjs[a.userObjs[u].passes[i]]],
     reservations |-> ResListView(a, a.userObjs[u].reservations)]

WorkshopView(a, w) ==
    [workshopId |-> a.wsObjs[w].workshopId,
     capacity |-> a.wsObjs[w].capacity,
     reservations |-> ResListView(a, a.wsObjs[w].reservations)]

ExhibitionView(a, e) ==
    [exhibitionId |-> a.exObjs[e].exhibitionId,
     workshops |-> [i \in DOMAIN a.exObjs[e].workshops |->
                      WorkshopView(a, a.exObjs[e].workshops[i])]]

PresentKeys(map) == {k \in DOMAIN map : map[k] # None}

\* <<n, i, x, j, k>>: reservation i of user n and reservation k of workshop
\* j of exhibition x are one object.
SharedReservations(a) ==
    UNION {UNION {UNION {UNION {
        {<<n, i, x, j, k>> :
            k \in {k \in DOMAIN a.wsObjs[a.exObjs[a.exhibitions[x]].workshops[j]].reservations :
                     a.wsObjs[a.exObjs[a.exhibitions[x]].workshops[j]].reservations[k]
                         = a.userObjs[a.users[n]].reservations[i]}}
        : j \in DOMAIN a.exObjs[a.exhibitions[x]].workshops}
        : x \in PresentKeys(a.exhibitions)}
        : i \in DOMAIN a.userObjs[a.users[n]].reservations}
        : n \in PresentKeys(a.users)}

\* <<n, i>>: the attendee of reservation i of user n is that user object.
OwnReservations(a) ==
    UNION {{<<n, i>> :
              i \in {i \in DOMAIN a.userObjs[a.users[n]].reservations :
                       a.resObjs[a.userObjs[a.users[n]].reservations[i]].attendee
                           = a.users[n]}}
           : n \in PresentKeys(a.users)}

View(a) ==
    [users |-> [n \in PresentKeys(a.users) |-> UserView(a, a.users[n])],
     exhibitions |-> [x \in PresentKeys(a.exhibitions) |->
                        ExhibitionView(a, a.exhibitions[x])],
     next_pass_id |-> a.next_pass_id,
     next_transaction_id |-> a.next_transaction_id,
     next_reservation_id |-> a.next_reservation_id,
     shared |-> SharedReservations(a),
     own |-> OwnReservations(a)]

\* C14: for the aggregate of every state of the running program, saving and
\* loading it gives an aggregate with the same user, exhibition, workshop,
\* pass and reservation ids, the same lists and counters, and the same
\* reservations shared between an attendee's list and a workshop's list; and
\* a start-up that finds a pickle in the file runs on such an aggregate.
C14_RoundTrip ==
    /\ [](screen # NotRunning => View(Pickle(Aggregate)) = View(Aggregate))
    /\ [][\A io \in IOOutcomes :
             (Start(io) /\ LoadReturnsFile)
             => View(Aggregate') = View(blob.content) /\ blob' = blob
         ]_vars

\* C14 happens: the program runs on an aggregate loaded from the file, in
\* which a reservation made in an earlier session is shared by johndoe and a
\* workshop of ex1, and which lost the objects of a deleted workshop.
C14_LoadedShared ==
    /\ screen = "AuthFrame"
    /\ msg = NoMsg
    /\ blob.state = "pickle"
    /\ blob.content = Aggregate
    /\ next_reservation_id > Len(resObjs) + 1
    /\ Len(wsObjs) < 9
    /\ \E t \in SharedReservations(Aggregate) : t[1] = "johndoe" /\ t[3] = "ex1"

\* C15: a Confirm Payment whose form passes the checks appends exactly one
\* new pass to one attendee's passes: its id is "pass<next_pass_id>", it is
\* of the variant of the payment window, an ExhibitionPass at 100 with
\* exactly the exhibition chosen up front, an AllAccessPass at 500;
\* next_pass_id grows by one, and no other pass list and no existing pass
\* changes.
C15_ValidatedPaymentMintsPass ==
    [][\A f \in PaymentForms :
        (ConfirmPayment(f) /\ PaymentError(f) = NoMsg) =>
           /\ next_pass_id' = next_pass_id + 1
           /\ \A p \in DOMAIN passObjs : passObjs'[p] = passObjs[p]
           /\ \E u \in DOMAIN userObjs :
                /\ IsAttendee(u)
                /\ Len(userObjs'[u].passes) = Len(userObjs[u].passes) + 1
                /\ SubSeq(userObjs'[u].passes, 1, Len(userObjs[u].passes))
                       = userObjs[u].passes
                /\ userObjs'[u].passes[Len(userObjs[u].passes) + 1]
                       \in DOMAIN passObjs' \ DOMAIN passObjs
                /\ passObjs'[Len(passObjs')].passId = PassIdOf(next_pass_id)
                /\ passObjs'[Len(passObjs')].kind = payWindow.pass_type
                /\ payWindow.pass_type = "ExhibitionPass" =>
                       /\ passObjs'[Len(passObjs')].price = 100
                       /\ passObjs'[Len(passObjs')].exhibition_ids
                              = <<payWindow.exhibition_id>>
                /\ payWindow.pass_type = "AllAccessPass" =>
                       passObjs'[Len(passObjs')].price = 500
                /\ \A v \in DOMAIN userObjs \ {u} :
                       userObjs'[v].passes = userObjs[v].passes
    ]_vars

\* The same for a payment confirmed while an attendee is logged in.
C15_LoggedInPurchase ==
    [][\A f \in PaymentForms :
        (ConfirmPayment(f) /\ PaymentError(f) = NoMsg /\ IsAttendee(current_user)) =>
           /\ next_pass_id' = next_pass_id + 1
           /\ \A p \in DOMAIN passObjs : passObjs'[p] = passObjs[p]
           /\ userObjs'[current_user].passes
                  = Append(userObjs[current_user].passes, Len(passObjs'))
           /\ Len(passObjs') = Len(passObjs) + 1
           /\ passObjs'[Len(passObjs')].passId = PassIdOf(next_pass_id)
           /\ passObjs'[Len(passObjs')].kind = payWindow.pass_type
           /\ payWindow.pass_type = "ExhibitionPass" =>
                  /\ passObjs'[Len(passObjs')].price = 100
                  /\ passObjs'[Len(passObjs')].exhibition_ids
                         = <<payWindow.exhibition_id>>
           /\ payWindow.pass_type = "AllAccessPass" =>
                  passObjs'[Len(passObjs')].price = 500
           /\ \A v \in DOMAIN userObjs \ {current_user} :
                  userObjs'[v].passes = userObjs[v].passes
    ]_vars

\* What the forms call invalid: a card number that is not 15 or 16 digits
\* (blanks apart), a CVV that is not three digits, an expiry that is not
\* MM/YY with a month from 01 to 12.
InvalidCardNumber(t) ==
    \/ \E i \in DOMAIN t : t[i] \notin Digits \cup {" "}
    \/ Len(SelectSeq(t, LAMBDA c : c \in Digits)) \notin {15, 16}
InvalidCvv(t) == Len(t) # 3 \/ \E i \in DOMAIN t : t[i] \notin Digits
InvalidExpiry(t) ==
    \/ Len(t) # 5
    \/ t[3] # "/"
    \/ \E i \in {1, 2, 4, 5} : t[i] \notin Digits
    \/ 10 * DigitValue(t[1]) + DigitValue(t[2]) \notin 1..12
\* A capacity without digits or with a character no number has; a date
\* other than the well-formed one of the inputs; an id or a title left
\* empty (the id of an editor in edit mode is filled in by the program).
NonNumericCapacity(t) ==
    \/ \A i \in DOMAIN t : t[i] \notin Digits
    \/ \E i \in DOMAIN t : t[i] \notin Digits \cup {" ", "+", "-"}
InvalidWorkshopForm(f) ==
    \/ NonNumericCapacity(f.capacity)
    \/ f.start_time # WellFormedDate
    \/ f.end_time # WellFormedDate
    \/ f.title = ""
    \/ (editor.workshop = None /\ f.ws_id = "")
    \/ (editor.workshop = None /\ HasExhibition(editor.exhibition_id)
            /\ WorkshopIdExists(f.ws_id))
\* A registration with an empty field, an e-mail address without "@" or
\* without "." after it, a phone number with a non-digit or fewer than seven
\* digits, a password of fewer than four characters, or a taken username.
InvalidRegistration(f) ==
    \/ "" \in {f.username, f.name, f.password}
    \/ <<>> \in {f.email, f.phone}
    \/ ~\E i \in DOMAIN f.email : f.email[i] = "@"
    \/ ~\E i \in DOMAIN f.email :
           f.email[i] = "." /\ \A j \in i..Len(f.email) : f.email[j] # "@"
    \/ \E i \in DOMAIN f.phone : f.phone[i] \notin Digits
    \/ Len(f.phone) < 7
    \/ f.password = "abc"
    \/ users[f.username] # None

\* C16: an operation rejected for a validation error leaves the aggregate
\* (users, exhibitions, workshops, passes, reservations, the three counters)
\* unchanged, that is, no step that changes the aggregate is one of these: Confirm Payment with an invalid card number, CVV or expiry or
\* an empty field; Save in the workshop editor with a non-numeric capacity,
\* a malformed date, a missing id or title, or on add an existing workshop
\* id; Save of a new exhibition with an empty field or an existing id;
\* Register with an invalid field or an existing username.
C16_RejectedLeavesAggregate ==
    [][\/ UNCHANGED data
       \/ /\ \A f \in PaymentForms :
               (\/ InvalidCardNumber(f.card_number)
                \/ InvalidCvv(f.cvv)
                \/ InvalidExpiry(f.expiry)
                \/ \A i \in DOMAIN f.cardholder : f.cardholder[i] = " ")
               => ~ConfirmPayment(f)
          /\ \A f \in WorkshopForms :
               InvalidWorkshopForm(f) => ~EditorSave(f)
          /\ \A f \in ExhibitionForms :
               (\/ "" \in {f.ex_id, f.name, f.description}
                \/ HasExhibition(f.ex_id))
               => ~SaveExhibitionForm(f)
          /\ \A f \in RegistrationForms, t \in AccountTypes :
               InvalidRegistration(f) => ~RegisterForm(f, t)
    ]_vars

\* Johndoe, logged in with a payment window open and a pass id to mint, has
\* just been told that the card number is not valid.
C16_CardRejected ==
    /\ msg = "Please enter a valid card number."
    /\ payWindow.open
    /\ current_user # None
    /\ userObjs[current_user].userId = "johndoe"
    /\ next_pass_id <= MaxPassId

\* C17: the three counters never decrease; no two passes share a passId and
\* no two reservations ever created share a reservationId; every id in use
\* was minted below the counter, so the id minted next ("pass<next_pass_id>",
\* "res<next_reservation_id>") equals no id of an entity created earlier,
\* the passes and reservations of the loaded aggregate included.
C17_FreshIds ==
    /\ [][/\ next_pass_id' >= next_pass_id
          /\ next_reservation_id' >= next_reservation_id
          /\ next_transaction_id' >= next_transaction_id]_vars
    /\ [](\A p, q \in DOMAIN passObjs :
              passObjs[p].passId = passObjs[q].passId => p = q)
    /\ [](\A r, q \in DOMAIN resObjs :
              resObjs[r].reservationId = resObjs[q].reservationId => r = q)
    /\ [](\A p \in DOMAIN passObjs :
              passObjs[p].passId # PassIdOf(next_pass_id)
              /\ passObjs[p].passId[2] < next_pass_id)
    /\ [](\A r \in DOMAIN resObjs :
              resObjs[r].reservationId # ReservationIdOf(next_reservation_id)
              /\ resObjs[r].reservationId[2] < next_reservation_id)

\* A pass and a reservation were minted after a workshop and an account
\* that held a reservation were deleted.
C17_MintedAfterDeletes ==
    /\ Len(passObjs) = 3
    /\ Len(resObjs) = 3
    /\ users["johndoe"] = None
    /\ \E e \in ExhibitionsInMap : Len(exObjs[e].workshops) < 2

\* C18: in every state the workshops of the exhibitions of the aggregate
\* have pairwise different workshopIds, within an exhibition and across
\* exhibitions.
C18_UniqueWorkshopIds ==
    \A e1, e2 \in ExhibitionsInMap :
        \A i \in DOMAIN exObjs[e1].workshops, j \in DOMAIN exObjs[e2].workshops :
            wsObjs[exObjs[e1].workshops[i]].workshopId
                = wsObjs[exObjs[e2].workshops[j]].workshopId
            => (e1 = e2 /\ i = j)

\* A workshop was added under the id of a workshop deleted before, next to
\* other workshops.
C18_IdTakenAgain ==
    /\ \E w \in WorkshopsInData, v \in DOMAIN wsObjs \ WorkshopsInData :
           wsObjs[w].workshopId = wsObjs[v].workshopId
    /\ Cardinality(WorkshopsInData) >= 2

\* C19: in every state the capacity of every workshop of the aggregate is an
\* integer not below zero.
C19_CapacityNonNegative ==
    \A w \in WorkshopsInData :
        wsObjs[w].capacity \in Int /\ wsObjs[w].capacity >= 0

\* The dialogs that report a missing entity.
NotFoundMsgs ==
    {"Exhibition not found.", "Workshop not found.",
     "Selected exhibition not found."}

\* C20: a Save in a workshop editor whose exhibition is no longer in the
\* aggregate, or whose workshop is no longer a workshop of that exhibition,
\* reports 'not found' and leaves the aggregate unchanged (the form being
\* well formed).
C20_MissingTargetReported ==
    [][\A f \in WorkshopForms \cup SignedCapacityForms :
        (/\ EditorSave(f)
         /\ ~SaveRaisesValueError(f)
         /\ \/ ~HasExhibition(editor.exhibition_id)
            \/ /\ editor.workshop # None
               /\ editor.workshop
                      \notin Range(exObjs[exhibitions[editor.exhibition_id]].workshops))
        => (msg' \in NotFoundMsgs /\ UNCHANGED data)
    ]_vars

C22_CapacityBelowReservations ==
    [][ /\ \A e \in ExIds, w \in WsIds, c \in CapacityInputs, t \in DOMAIN wsObjs :
              ( /\ SaveEditedWorkshop(e, w, c)
                /\ t = FindWorkshop(exObjs[exhibitions[e]].workshops, w)
                /\ c < Len(wsObjs[t].reservations) )
              => /\ wsObjs'[t].capacity = c
                 /\ wsObjs'[t].workshopId = w
                 /\ wsObjs'[t].reservations = wsObjs[t].reservations
                 /\ userObjs' = userObjs
                 /\ resObjs' = resObjs
                 /\ exObjs' = exObjs
                 /\ check_availability(t)' = c - Len(wsObjs[t].reservations)
                 /\ check_availability(t)' < 0
        /\ \A s \in WsIds, t \in DOMAIN wsObjs :
              ( /\ AddWorkshop(s)
                /\ t = TargetWorkshop(s)
                /\ check_availability(t) <= 0 )
              => /\ msg' # SuccessMsg
                 /\ userObjs' = userObjs
                 /\ wsObjs' = wsObjs
                 /\ resObjs' = resObjs
      ]_vars

\* C22 happens: a workshop whose capacity was set below its reservations has
\* negative availability and still holds a reservation that is also in the
\* list of its attendee; another attendee was told that it is full.
C22_OverbookedReported ==
    /\ msg = "This workshop is full."
    /\ IsAttendee(current_user)
    /\ regWindow.open
    /\ \E w \in Range(exObjs[regWindow.exhibition].workshops) :
          /\ check_availability(w) < 0
          /\ ~HoldsReservationFor(current_user, w)
          /\ \E r \in Range(wsObjs[w].reservations) :
                ListContains(userObjs[resObjs[r].attendee].reservations, r)

\* C23: login sets current_user to the user stored under the typed userId
\* if and only if that userId is in the users map and the typed password
\* equals the stored one; otherwise current_user and the screen stay as they
\* are.  After a successful login an Administrator sees the admin dashboard
\* and every other user the attendee dashboard.  Logout sets current_user to
\* None and shows the login screen.
C23_LoginLogout ==
    /\ [][\A n \in UserNames, pw \in Passwords :
             Login(n, pw) =>
               IF users[n] # None /\ userObjs[users[n]].passwordHash = pw
               THEN /\ current_user' = users[n]
                    /\ screen' = IF userObjs[users[n]].kind = "Administrator"
                                 THEN "AdminDashboard"
                                 ELSE "AttendeeDashboard"
               ELSE /\ current_user' = current_user
                    /\ screen' = screen
         ]_vars
    /\ [][Logout => (current_user' = None /\ screen' = "AuthFrame")]_vars

\* C23 happens: the administrator logged in and sees the admin dashboard.
C23_AdminRouted ==
    /\ current_user # None
    /\ current_user = users["admin"]
    /\ userObjs[current_user].kind = "Administrator"
    /\ screen = "AdminDashboard"
    /\ msg = NoMsg

\* The pass shown in row `row` of the pass_listbox of window k.
ShownPass(k, row) == ListedPasses(upgrade[k].attendee)[row + 1]

\* C28: in the UpgradeWindow, a click on a row of the pass list offers the
\* exhibitions that are not yet on the ExhibitionPass shown in that row, and
\* "Confirm Upgrade" appends the selected ids to that pass and changes no
\* other pass, wherever the AllAccessPasses stand in the attendee's passes.
C28_SelectedPassUpgraded ==
    [][\A k \in UpgradeWindows :
          /\ \A row \in 0 .. 2 :
                OnPassSelect(k, row) =>
                   upgrade'[k].ex_items = ExhibitionsNotOn(ShownPass(k, row))
          /\ \A selected \in SUBSET ExIds :
                (UpgradePass(k, selected) /\ passObjs' # passObjs) =>
                   passObjs' = [passObjs EXCEPT
                       ![ShownPass(k, upgrade[k].pass_indices[1])].exhibition_ids =
                           @ \o NewExIds(k, selected)]
      ]_vars

\* The passes of the attendee of window k start with its ExhibitionPasses:
\* no AllAccessPass stands before a pass that is listed.
ListedFirst(k) ==
    LET own == userObjs[upgrade[k].attendee].passes
    IN \A i \in 1 .. upgrade[k].rows : passObjs[own[i]].kind = "ExhibitionPass"

\* The statement of C28 for the windows whose attendee has no AllAccessPass
\* before a listed pass.
C28_ListedFirstUpgraded ==
    [][\A k \in UpgradeWindows :
          (upgrade[k].open /\ ListedFirst(k)) =>
          /\ \A row \in 0 .. 2 :
                OnPassSelect(k, row) =>
                   upgrade'[k].ex_items = ExhibitionsNotOn(ShownPass(k, row))
          /\ \A selected \in SUBSET ExIds :
                (UpgradePass(k, selected) /\ passObjs' # passObjs) =>
                   passObjs' = [passObjs EXCEPT
                       ![ShownPass(k, upgrade[k].pass_indices[1])].exhibition_ids =
                           @ \o NewExIds(k, selected)]
      ]_vars

UpgradedFor(a, ex_id) ==
    /\ a \in AttendeesInMap
    /\ \E p \in Range(userObjs[a].passes) :
          /\ passObjs[p].kind = "ExhibitionPass"
          /\ \E i \in 2 .. Len(passObjs[p].exhibition_ids) :
                passObjs[p].exhibition_ids[i] = ex_id
    /\ HasExhibition(ex_id)
    /\ \E w \in Range(exObjs[exhibitions[ex_id]].workshops) :
          check_availability(w) > 0

\* Attendee a holds a reservation for a workshop of exhibition ex_id, or no
\* workshop of ex_id has a free seat any more.
ReservedIn(a, ex_id) ==
    \/ \E r \in Range(userObjs[a].reservations) :
          resObjs[r].workshop \in Range(exObjs[exhibitions[ex_id]].workshops)
    \/ \A w \in Range(exObjs[exhibitions[ex_id]].workshops) :
          check_availability(w) <= 0

C27_FirstIdOnly ==
    \A a \in AttendeesInMap : \A r \in Range(userObjs[a].reservations) :
        \E p \in Range(userObjs[a].passes) :
            /\ passObjs[p].kind = "ExhibitionPass"
            /\ passObjs[p].exhibition_ids # <<>>
            /\ HasExhibition(passObjs[p].exhibition_ids[1])
            /\ resObjs[r].workshop \in
                 Range(exObjs[exhibitions[passObjs[p].exhibition_ids[1]]].workshops)

\* C24: a reservation in the list of an attendee stays in that list, as it
\* is and with status "Confirmed", in every step but a confirmed
\* delete_workshop of a workshop with the workshopId of the reserved
\* workshop or a confirmed delete_exhibition of an exhibition holding such a
\* workshop; purchases, upgrades, profile edits, capacity edits, logins,
\* logouts and the reservations of others leave it alone.
C24_NoCancellation ==
    [][\A a \in DOMAIN userObjs : \A i \in DOMAIN userObjs[a].reservations :
          LET r == userObjs[a].reservations[i]
              ws_id == wsObjs[resObjs[r].workshop].workshopId
          IN \/ /\ ListContains(userObjs'[a].reservations, r)
                /\ resObjs'[r] = resObjs[r]
                /\ resObjs[r].status = "Confirmed"
             \/ \E e \in ExIds :
                   /\ DeleteExhibition(e, TRUE)
                   /\ ws_id \in WorkshopIdsOf(exhibitions[e])
             \/ \E e \in ExIds : DeleteWorkshop(e, ws_id, TRUE)
      ]_vars

\* C24 happens: the reservation johndoe held from the start is still in
\* johndoe's list after johndoe bought a pass, the administrator upgraded
\* pass1 and set the capacity of the reserved workshop to 0, and janedoe
\* made a reservation.
C24_KeptThroughout ==
    /\ ListContains(userObjs[2].reservations, 1)
    /\ resObjs[1].status = "Confirmed"
    /\ Len(userObjs[2].passes) = 2
    /\ Len(passObjs[1].exhibition_ids) = 2
    /\ wsObjs[resObjs[1].workshop].capacity = 0
    /\ userObjs[3].reservations # <<>>

\* C25: every reservation in the list of an attendee of the users map is
\* for a workshop that belongs to an exhibition of the aggregate and is also
\* in the reservations list of that workshop, and no attendee holds two
\* reservations for the same workshopId.
C25_ReservationsConsistent ==
    \A a \in AttendeesInMap :
        /\ \A r \in Range(userObjs[a].reservations) :
              /\ resObjs[r].workshop \in WorkshopsInData
              /\ ListContains(wsObjs[resObjs[r].workshop].reservations, r)
        /\ \A i, j \in DOMAIN userObjs[a].reservations :
              wsObjs[resObjs[userObjs[a].reservations[i]].workshop].workshopId
                = wsObjs[resObjs[userObjs[a].reservations[j]].workshop].workshopId
              => i = j

\* The parts of C25 that hold: a reservation in the list of an attendee of
\* the users map is in the list of its workshop, and no attendee holds two
\* reservations for the same workshopId.
C25_ListedAndUnique ==
    \A a \in AttendeesInMap :
        /\ \A r \in Range(userObjs[a].reservations) :
              ListContains(wsObjs[resObjs[r].workshop].reservations, r)
        /\ \A i, j \in DOMAIN userObjs[a].reservations :
              wsObjs[resObjs[userObjs[a].reservations[i]].workshop].workshopId
                = wsObjs[resObjs[userObjs[a].reservations[j]].workshop].workshopId
              => i = j

\* C26: every reservation is created for an attendee who, at that moment,
\* owns a pass that is eligible for the exhibition of the reserved workshop.
C26_EligibleAtCreation ==
    [][\A s \in WsIds :
          (AddWorkshop(s) /\ msg' = SuccessMsg) =>
             \E p \in Range(userObjs[current_user].passes) :
                 is_eligible(p, exObjs[regWindow.exhibition].exhibitionId)
      ]_vars


\* purchase_pass (reached from a PaymentWindow whose form passes the checks)
\* reads and appends to the current user's passes; add_workshop, once the
\* selected workshop is found, reads and appends to the current user's
\* reservations.
UsesCurrentUser ==
    \/ PaymentError(WellFormedPayment) = NoMsg /\ ConfirmPayment(WellFormedPayment)
    \/ \E w \in WsIds :
          regWindow.open /\ TargetWorkshop(w) # None /\ AddWorkshop(w)

\* C30: in every reachable state current_user is None or a user object that
\* is a value of the users map, whatever the interleaving of login,
\* registration (also from a registration window still open after a login),
\* logout and account deletion; and every handler that reads or mutates the
\* current user's passes or reservations runs with an attendee of the users
\* map as current user.
C30_CurrentUserExists ==
    /\ [](current_user = None \/ current_user \in UsersInMap)
    /\ [][UsesCurrentUser => current_user \in AttendeesInMap]_vars

\* The state part of C30 alone: current_user is None or a value of the users
\* map.
C30_CurrentUserInMap == current_user = None \/ current_user \in UsersInMap

\* A registration in a window left open replaced the logged-in user by the
\* new account.
C30_RegisteredOverSession ==
    /\ Len(userObjs) = 4
    /\ current_user = 4
    /\ current_user \in UsersInMap
    /\ msg = "Account created successfully! Welcome."
    /\ payWindow.open

====
